---- MODULE Spec2Model ----
(***************************************************************************)
(* The game session of the voxel winter world: the placement of gifts and  *)
(* snowmen (App.tsx: generateGifts, generateSnowmen) and the session state *)
(* machine (App.tsx: handleCollect, handleSnowmanHit, startGame), the      *)
(* generator of the voxel world (generateWorld) and the ice pane of the    *)
(* pond (IcePond).                                                         *)
(*                                                                         *)
(* Numbers.  World coordinates are fixed point, 400 units to one world     *)
(* unit, so that VOXEL_SIZE (0.25) is 100 units and the lifts 0.3, 0.5 and *)
(* 1.0 are 120, 200 and 400 units.  A call of Math.random() is a quarter   *)
(* q in 0..3, standing for the value q/4; an angle Math.random()*2*PI is   *)
(* then a multiple of PI/2, whose sine and cosine are exact.               *)
(***************************************************************************)
EXTENDS Integers, Sequences, FiniteSets, TLC

VARIABLES gameState, mounted, pending, place, world, pond

vars == <<gameState, mounted, pending, place, world, pond>>

(***************************************************************************)
(* Bounds of the exploration.                                              *)
(***************************************************************************)
\* the random draws of one session are the seeds 0..MaxSeed
MaxSeed == 1
\* collect events with an id absent from the collection: at most MaxStray
MaxStray == 4
\* hit events address the snowmen 0..MaxHitArg (and one absent id)
MaxHitArg == 1
\* events queued between two renders
MaxPending == 2
\* hit events of the queued session address the snowmen 0..MaxBatchArg
MaxBatchArg == 0
\* the draws of a placement call: the seeds 0..MaxPlaceSeed; the scatter slot
\* and the random snowman whose samples are all rejected are among the first
\* MaxStuck
MaxPlaceSeed == 1
MaxStuck == 2
\* the random draws of one run of generateWorld are the seeds 0..MaxWorldSeed
MaxWorldSeed == 1
\* pointer events of the ice pond handled between two renders of IcePond
MaxPondPending == 3
\* the player hits one of the first MaxChoice living snowmen, in id order
MaxChoice == 1

(***************************************************************************)
(* Program constants.                                                      *)
(***************************************************************************)
VOXEL_SIZE == 100
treeCount == 12
treeHeight == 100
pondCount == 4
targetInitial == 25
scatterAttempts == 50
scatterExclusion == 6
snowmanAttempts == 20
snowmanExclusion == 8
snowmanFallback == 10
snowmanHp == 3
giftCount == 30
snowmanCount == 5
totalGoals == 30
rewardIdOffset == 1000
rewardLift == 400
houseLift == 120
pondLift == 120
scatterLift == 200
pondIceLevel == -2
pondRadius == 16
hubRadius == 5

Undefined == "undefined"

Min(S) == CHOOSE x \in S : \A y \in S : x <= y

(***************************************************************************)
(* Math.random().  A draw d fixes the outcome of every call: the k-th call *)
(* of a loop returns the quarter random(d, k).                             *)
(***************************************************************************)
random(d, k) == (d.seed + k) % 4

\* Math.cos and Math.sin of the angle q * PI/2
CosQ(q) == CASE q = 0 -> 1 [] q = 1 -> 0 [] q = 2 -> -1 [] q = 3 -> 0

SinQ(q) == CASE q = 0 -> 0 [] q = 1 -> 1 [] q = 2 -> 0 [] q = 3 -> -1

colors == <<"#ff0000", "#00ff00", "#3333ff", "#ffd700", "#ff00ff", "#00ffff", "#ff6b00">>

getRandomColor(d, k) == colors[((random(d, k) * Len(colors)) \div 4) + 1]

types == <<"box", "box", "cane", "ornament", "ornament", "stocking", "gingerbread", "star">>

getRandomType(d, k) == types[((random(d, k) * Len(types)) \div 4) + 1]

(***************************************************************************)
(* getTerrainVoxelY.  The noise term                                       *)
(*   floor(sin(x*0.05)*cos(z*0.05)*6 + sin(x*0.1 + z*0.2)*2)               *)
(* is tabulated at the sample points the draws use and at the columns of   *)
(* the world the generator is followed on (the generator computes the same *)
(* expression); the two distance tests are exact on integers (sqrt(a) < r  *)
(* iff a < r*r).                                                           *)
(***************************************************************************)
noiseFloor ==
    <<-60,70>> :> 2 @@ <<-50,40>> :> 1 @@ <<-48,12>> :> -5 @@ <<-39,-17>> :> -6 @@
    <<-38,-18>> :> -6 @@ <<-38,-17>> :> -6 @@ <<-38,-16>> :> -6 @@ <<-38,13>> :> -7 @@
    <<-37,-17>> :> -6 @@ <<-37,12>> :> -7 @@ <<-37,13>> :> -7 @@ <<-37,14>> :> -6 @@
    <<-36,12>> :> -7 @@ <<-36,13>> :> -7 @@ <<-36,14>> :> -6 @@ <<-35,13>> :> -7 @@
    <<-35,19>> :> -3 @@ <<-35,20>> :> -3 @@ <<-35,35>> :> 0 @@ <<-35,52>> :> 6 @@
    <<-30,40>> :> 0 @@ <<-30,50>> :> 6 @@ <<-23,23>> :> -1 @@ <<-21,-22>> :> -3 @@
    <<-20,-23>> :> -3 @@ <<-20,-22>> :> -3 @@ <<-20,-21>> :> -3 @@ <<-20,-10>> :> -3 @@
    <<-20,35>> :> -2 @@ <<-19,-22>> :> -3 @@ <<-18,35>> :> -1 @@ <<-6,-47>> :> 2 @@
    <<-5,-48>> :> 2 @@ <<-5,-47>> :> 1 @@ <<-5,-46>> :> 1 @@ <<-4,-47>> :> 1 @@
    <<-4,0>> :> -2 @@ <<-1,28>> :> -2 @@ <<0,-40>> :> -2 @@ <<0,-8>> :> -2 @@
    <<0,-4>> :> -2 @@ <<0,0>> :> 0 @@ <<0,8>> :> 1 @@ <<0,27>> :> -2 @@
    <<0,28>> :> -2 @@ <<0,29>> :> -1 @@ <<1,0>> :> 0 @@ <<1,28>> :> -2 @@
    <<2,0>> :> 0 @@ <<2,2>> :> 1 @@ <<3,0>> :> 1 @@ <<3,3>> :> 2 @@
    <<3,4>> :> 2 @@ <<5,5>> :> 3 @@ <<6,0>> :> 2 @@ <<10,-40>> :> -3 @@
    <<10,-8>> :> 1 @@ <<10,8>> :> 3 @@ <<10,10>> :> 2 @@ <<14,-27>> :> 2 @@
    <<15,-28>> :> 2 @@ <<15,-27>> :> 2 @@ <<15,-26>> :> 2 @@ <<15,15>> :> 1 @@
    <<16,-27>> :> 2 @@ <<16,38>> :> -1 @@ <<17,37>> :> -1 @@ <<17,38>> :> -2 @@
    <<17,39>> :> -2 @@ <<18,38>> :> -2 @@ <<24,-2>> :> 7 @@ <<25,-3>> :> 7 @@
    <<25,-2>> :> 7 @@ <<25,-1>> :> 7 @@ <<26,-2>> :> 7 @@ <<27,-44>> :> -4 @@
    <<28,-45>> :> -4 @@ <<28,-44>> :> -3 @@ <<30,-50>> :> -7 @@ <<30,-44>> :> -3 @@
    <<32,23>> :> 4 @@ <<33,-50>> :> -6 @@ <<33,22>> :> 4 @@ <<33,23>> :> 4 @@
    <<33,24>> :> 4 @@ <<34,22>> :> 4 @@ <<34,23>> :> 4 @@ <<34,24>> :> 4 @@
    <<35,23>> :> 4 @@ <<39,-27>> :> -1 @@ <<40,-30>> :> -2 @@ <<40,-28>> :> -2 @@
    <<40,-27>> :> -1 @@ <<40,-26>> :> -1 @@ <<41,-27>> :> -1 @@ <<42,-2>> :> 3 @@
    <<43,-2>> :> 3 @@ <<50,4>> :> 2 @@ <<60,20>> :> -1 @@ <<64,64>> :> 1 @@
    <<90,0>> :> -6

\* getTerrainVoxelY without the centre hub rule
getTerrainVoxelYNoHub(logicalX, logicalZ) ==
    IF (logicalX + 35) * (logicalX + 35) + (logicalZ - 35) * (logicalZ - 35)
          < pondRadius * pondRadius
    THEN pondIceLevel
    ELSE noiseFloor[<<logicalX, logicalZ>>]

getTerrainVoxelY(logicalX, logicalZ) ==
    IF (logicalX + 35) * (logicalX + 35) + (logicalZ - 35) * (logicalZ - 35)
          < pondRadius * pondRadius
    THEN pondIceLevel
    ELSE IF logicalX * logicalX + logicalZ * logicalZ < hubRadius * hubRadius
    THEN 0
    ELSE noiseFloor[<<logicalX, logicalZ>>]

(***************************************************************************)
(* generateGifts                                                           *)
(***************************************************************************)
addGift(g, x, y, z, type, d) ==
    [gifts |-> Append(g.gifts,
                  [id |-> g.idCounter,
                   position |-> <<x, y, z>>,
                   color |-> getRandomColor(d, g.idCounter),
                   collected |-> FALSE,
                   type |-> type,
                   rotation |-> <<random(d, g.idCounter), random(d, g.idCounter + 1),
                                  random(d, g.idCounter + 2)>>]),
     idCounter |-> g.idCounter + 1]

\* radiusAtHeight + 1.5 in hundredths of a voxel, for heightPercent = 0.15 + (q/4)*0.7:
\* 32*(1 - heightPercent) + sin(yVoxel*0.5)*1.5 + 1.5, rounded
treeSurfaceRadius(q) == CASE q = 0 -> 3011 [] q = 1 -> 2233 [] q = 2 -> 1730 [] q = 3 -> 1298

\* heightPercent * treeHeight in hundredths of a voxel
treeYVoxel(q) == (15 + (q * 70) \div 4) * treeHeight + ((q * 70) % 4) * (treeHeight \div 4)

RECURSIVE placeOnTree(_, _, _)
placeOnTree(g, i, d) ==
    IF i >= treeCount THEN g
    ELSE LET q == random(d, i)
             angle == random(d, i + 1)
             r == treeSurfaceRadius(q)
         IN  placeOnTree(
                 addGift(g,
                         (CosQ(angle) * r * VOXEL_SIZE) \div 100,
                         (treeYVoxel(q) * VOXEL_SIZE) \div 100,
                         (SinQ(angle) * r * VOXEL_SIZE) \div 100,
                         IF i % 2 = 0 THEN "ornament" ELSE "star",
                         d),
                 i + 1, d)

houses ==
    << [x |-> 50, z |-> 0, w |-> 12, d |-> 16],
       [x |-> 30, z |-> -50, w |-> 10, d |-> 12],
       [x |-> -40, z |-> -40, w |-> 14, d |-> 10],
       [x |-> 0, z |-> 60, w |-> 16, d |-> 12] >>

\* 1 + Math.floor(Math.random() * 2); d.inside[hi] is the quarter drawn for house hi
numInside(d, hi) == 1 + (d.inside[hi] * 2) \div 4

RECURSIVE placeInHouse(_, _, _, _)
placeInHouse(g, hi, k, d) ==
    IF k >= numInside(d, hi) THEN g
    ELSE LET h == houses[hi]
             \* (Math.random() - 0.5) * (h.w - 5), in quarters of a voxel
             rX == (random(d, hi + k) - 2) * (h.w - 5)
             rZ == (random(d, hi + k + 1) - 2) * (h.d - 5)
         IN  placeInHouse(
                 addGift(g,
                         ((h.x * 4 + rX) * VOXEL_SIZE) \div 4,
                         (0 * VOXEL_SIZE) + houseLift,
                         ((h.z * 4 + rZ) * VOXEL_SIZE) \div 4,
                         "stocking",
                         d),
                 hi, k + 1, d)

RECURSIVE placeInHouses(_, _, _)
placeInHouses(g, hi, d) ==
    IF hi > Len(houses) THEN g
    ELSE placeInHouses(placeInHouse(g, hi, 0, d), hi + 1, d)

RECURSIVE placeOnPond(_, _, _)
placeOnPond(g, i, d) ==
    IF i >= pondCount THEN g
    ELSE LET angle == random(d, i)
             \* Math.random() * 12
             r == random(d, i + 1) * 3
             px == -35 + CosQ(angle) * r
             pz == 35 + SinQ(angle) * r
         IN  placeOnPond(
                 addGift(g, px * VOXEL_SIZE, (pondIceLevel * VOXEL_SIZE) + pondLift,
                         pz * VOXEL_SIZE, "cane", d),
                 i + 1, d)

\* (Math.random() - 0.5) * 160, twice: the samples of the scatter loop
scatterPoints == << <<40,-30>>, <<3,4>>, <<-35,35>>, <<6,0>>, <<-60,70>>, <<0,8>> >>

\* the sample of attempt number `attempts` of scatter slot i; a slot in
\* d.stuckScatter draws a point inside the exclusion radius at every attempt
scatterSample(d, i, attempts) ==
    IF i \in d.stuckScatter THEN <<3, 4>>
    ELSE scatterPoints[((d.seed + i + attempts) % Len(scatterPoints)) + 1]

\* one scatter slot without the exclusion test: the first sample is taken
scatterSlotAcceptFirst(g, i, attempts, d) ==
    LET p == scatterSample(d, i, attempts + 1)
    IN  addGift(g, p[1] * VOXEL_SIZE,
                (getTerrainVoxelY(p[1], p[2]) * VOXEL_SIZE) + scatterLift,
                p[2] * VOXEL_SIZE,
                getRandomType(d, i + attempts), d)

\* the while loop of one scatter slot, entered with `attempts` attempts made
RECURSIVE scatterSlot(_, _, _, _)
scatterSlot(g, i, attempts, d) ==
    IF ~(attempts < scatterAttempts) THEN g
    ELSE LET p == scatterSample(d, i, attempts + 1)
             xVoxel == p[1]
             zVoxel == p[2]
         IN  IF xVoxel * xVoxel + zVoxel * zVoxel < scatterExclusion * scatterExclusion
             THEN scatterSlot(g, i, attempts + 1, d)
             ELSE addGift(g, xVoxel * VOXEL_SIZE,
                          (getTerrainVoxelY(xVoxel, zVoxel) * VOXEL_SIZE) + scatterLift,
                          zVoxel * VOXEL_SIZE,
                          getRandomType(d, i + attempts), d)

RECURSIVE scatter(_, _, _, _)
scatter(g, i, remaining, d) ==
    IF i >= remaining THEN g
    ELSE scatter(scatterSlot(g, i, 0, d), i + 1, remaining, d)

\* generateGifts filling the scatter up to count
generateGiftsToCount(count, d) ==
    LET g0 == [gifts |-> <<>>, idCounter |-> 0]
        g1 == placeOnTree(g0, 0, d)
        g2 == placeInHouses(g1, 1, d)
        g3 == placeOnPond(g2, 0, d)
        currentCount == Len(g3.gifts)
        remaining == IF count - currentCount > 0 THEN count - currentCount ELSE 0
    IN  scatter(g3, 0, remaining, d).gifts

generateGifts(count, d) ==
    LET g0 == [gifts |-> <<>>, idCounter |-> 0]
        g1 == placeOnTree(g0, 0, d)
        g2 == placeInHouses(g1, 1, d)
        g3 == placeOnPond(g2, 0, d)
        currentCount == Len(g3.gifts)
        remaining == IF targetInitial - currentCount > 0
                     THEN targetInitial - currentCount ELSE 0
    IN  scatter(g3, 0, remaining, d).gifts

(***************************************************************************)
(* generateSnowmen                                                         *)
(***************************************************************************)
\* (Math.random() - 0.5) * 2 * maxRange, twice: the samples of the placement loop
snowmanPoints == << <<60,20>>, <<5,5>>, <<0,-8>>, <<-30,50>> >>

snowmanSample(d, i, attempts) ==
    IF i \in d.stuckSnowmen THEN <<5, 5>>
    ELSE snowmanPoints[((d.seed + i + attempts) % Len(snowmanPoints)) + 1]

\* the while loop of snowman i: the last sample drawn, accepted or not
RECURSIVE snowmanLoop(_, _, _, _)
snowmanLoop(p, i, attempts, d) ==
    IF ~(attempts < snowmanAttempts) THEN p
    ELSE LET s == snowmanSample(d, i, attempts + 1)
         IN  IF s[1] * s[1] + s[2] * s[2] < snowmanExclusion * snowmanExclusion
             THEN snowmanLoop(s, i, attempts + 1, d)
             ELSE s

\* !v of a number or undefined
falsy(v) == IF v \in Int THEN v = 0 ELSE TRUE

snowmanAt(i, d) ==
    LET p == CASE i = 0 -> <<15, 15>>
               [] i = 1 -> <<-20, -10>>
               [] OTHER -> snowmanLoop(<<Undefined, Undefined>>, i, 0, d)
        xVoxel == IF falsy(p[1]) THEN snowmanFallback ELSE p[1]
        zVoxel == IF falsy(p[2]) THEN snowmanFallback ELSE p[2]
        yVoxel == getTerrainVoxelY(xVoxel, zVoxel)
    IN  [id |-> i,
         position |-> <<xVoxel * VOXEL_SIZE, yVoxel * VOXEL_SIZE, zVoxel * VOXEL_SIZE>>,
         rotation |-> random(d, i),
         hp |-> snowmanHp,
         isDead |-> FALSE]

generateSnowmen(count, d) == [k \in 1..count |-> snowmanAt(k - 1, d)]

(***************************************************************************)
(* The session state (App: useState, the mount effect, the handlers).      *)
(* A handler hands React an updater, a function of the previous state; the *)
(* updaters are the operators below.                                       *)
(***************************************************************************)
initialState ==
    [started |-> FALSE, gifts |-> <<>>, snowmen |-> <<>>, foundCount |-> 0,
     gameOver |-> FALSE]

\* Array.prototype.find: the index of the first element with the id, 0 when none
findIndex(seq, id) ==
    LET hits == {i \in DOMAIN seq : seq[i].id = id}
    IN  IF hits = {} THEN 0 ELSE Min(hits)

initUpdater(prev, d) ==
    [prev EXCEPT !.gifts = generateGifts(giftCount, d),
                 !.snowmen = generateSnowmen(snowmanCount, d)]

\* handleCollect without its early return
collectUpdaterNoGuard(prev, id) ==
    [prev EXCEPT !.gifts = [i \in DOMAIN prev.gifts |->
                               IF prev.gifts[i].id = id
                               THEN [prev.gifts[i] EXCEPT !.collected = TRUE]
                               ELSE prev.gifts[i]],
                 !.foundCount = prev.foundCount + 1,
                 !.gameOver = (prev.foundCount + 1 >= totalGoals)]

\* handleCollect with the goal test newCount > totalGoals
collectUpdaterStrictGoal(prev, id) ==
    LET gi == findIndex(prev.gifts, id)
    IN  IF gi # 0 /\ prev.gifts[gi].collected THEN prev
        ELSE [prev EXCEPT !.gifts = [i \in DOMAIN prev.gifts |->
                                        IF prev.gifts[i].id = id
                                        THEN [prev.gifts[i] EXCEPT !.collected = TRUE]
                                        ELSE prev.gifts[i]],
                          !.foundCount = prev.foundCount + 1,
                          !.gameOver = (prev.foundCount + 1 > totalGoals)]

\* handleCollect with the goal test newCount === totalGoals
collectUpdaterExactGoal(prev, id) ==
    LET gi == findIndex(prev.gifts, id)
    IN  IF gi # 0 /\ prev.gifts[gi].collected THEN prev
        ELSE [prev EXCEPT !.gifts = [i \in DOMAIN prev.gifts |->
                                        IF prev.gifts[i].id = id
                                        THEN [prev.gifts[i] EXCEPT !.collected = TRUE]
                                        ELSE prev.gifts[i]],
                          !.foundCount = prev.foundCount + 1,
                          !.gameOver = (prev.foundCount + 1 = totalGoals)]

\* handleCollect declaring the game over at the initial target of 25
collectUpdaterEarlyWin(prev, id) ==
    LET gi == findIndex(prev.gifts, id)
    IN  IF gi # 0 /\ prev.gifts[gi].collected THEN prev
        ELSE LET newGifts == [i \in DOMAIN prev.gifts |->
                                 IF prev.gifts[i].id = id
                                 THEN [prev.gifts[i] EXCEPT !.collected = TRUE]
                                 ELSE prev.gifts[i]]
                 newCount == prev.foundCount + 1
             IN  [prev EXCEPT !.gifts = newGifts,
                              !.foundCount = newCount,
                              !.gameOver = (newCount >= targetInitial)]

\* handleCollect removing the collected gift from the collection
collectUpdaterFilter(prev, id) ==
    LET gi == findIndex(prev.gifts, id)
    IN  IF gi # 0 /\ prev.gifts[gi].collected THEN prev
        ELSE LET newGifts == SelectSeq(prev.gifts, LAMBDA g : g.id # id)
                 newCount == prev.foundCount + 1
             IN  [prev EXCEPT !.gifts = newGifts,
                              !.foundCount = newCount,
                              !.gameOver = (newCount >= totalGoals)]

collectUpdater(prev, id) ==
    LET gi == findIndex(prev.gifts, id)
    IN  IF gi # 0 /\ prev.gifts[gi].collected THEN prev
        ELSE LET newGifts == [i \in DOMAIN prev.gifts |->
                                 IF prev.gifts[i].id = id
                                 THEN [prev.gifts[i] EXCEPT !.collected = TRUE]
                                 ELSE prev.gifts[i]]
                 newCount == prev.foundCount + 1
             IN  [prev EXCEPT !.gifts = newGifts,
                              !.foundCount = newCount,
                              !.gameOver = (newCount >= totalGoals)]

\* the reward gift of snowman sm
rewardGift(sm, id) ==
    [id |-> rewardIdOffset + id,
     position |-> <<sm.position[1], sm.position[2] + rewardLift, sm.position[3]>>,
     color |-> "#ff00ff",
     collected |-> FALSE,
     type |-> "gingerbread",
     rotation |-> <<0, 0, 0>>]

\* handleSnowmanHit with its guard, isDead test and reward test as parameters
snowmanHitVariant(prev, id, guardDead, deadAtZero, rewardOnlyDead) ==
    LET si == findIndex(prev.snowmen, id)
    IN  IF si = 0 \/ (guardDead /\ prev.snowmen[si].isDead) THEN prev
        ELSE LET sm == prev.snowmen[si]
                 newHp == sm.hp - 1
                 isDead == IF deadAtZero THEN newHp <= 0 ELSE newHp < 0
             IN  [prev EXCEPT
                    !.snowmen = [i \in DOMAIN prev.snowmen |->
                                    IF prev.snowmen[i].id = id
                                    THEN [prev.snowmen[i] EXCEPT !.hp = newHp,
                                                                 !.isDead = isDead]
                                    ELSE prev.snowmen[i]],
                    !.gifts = IF isDead \/ ~rewardOnlyDead
                              THEN Append(prev.gifts, rewardGift(sm, id))
                              ELSE prev.gifts]

\* handleSnowmanHit pushing the reward gift on every hit
snowmanHitUpdaterRewardEveryHit(prev, id) == snowmanHitVariant(prev, id, TRUE, TRUE, FALSE)

\* handleSnowmanHit with isDead = newHp < 0
snowmanHitUpdaterLateDeath(prev, id) == snowmanHitVariant(prev, id, TRUE, FALSE, TRUE)

\* handleSnowmanHit with the guard if (!sm) return prev
snowmanHitUpdaterNoDeadGuard(prev, id) == snowmanHitVariant(prev, id, FALSE, TRUE, TRUE)

\* handleSnowmanHit numbering the reward gift by the length of the collection
snowmanHitUpdaterCountedId(prev, id) ==
    LET si == findIndex(prev.snowmen, id)
    IN  IF si = 0 \/ prev.snowmen[si].isDead THEN prev
        ELSE LET sm == prev.snowmen[si]
                 hit == snowmanHitVariant(prev, id, TRUE, TRUE, TRUE)
             IN  IF sm.hp - 1 <= 0
                 THEN [hit EXCEPT !.gifts =
                          Append(prev.gifts,
                                 [rewardGift(sm, id) EXCEPT
                                     !.id = rewardIdOffset + Len(prev.gifts)])]
                 ELSE hit

\* handleSnowmanHit giving the reward gift the id of its snowman
snowmanHitUpdaterPlainId(prev, id) ==
    LET si == findIndex(prev.snowmen, id)
    IN  IF si = 0 \/ prev.snowmen[si].isDead THEN prev
        ELSE LET sm == prev.snowmen[si]
                 hit == snowmanHitVariant(prev, id, TRUE, TRUE, TRUE)
             IN  IF sm.hp - 1 <= 0
                 THEN [hit EXCEPT !.gifts =
                          Append(prev.gifts, [rewardGift(sm, id) EXCEPT !.id = id])]
                 ELSE hit

snowmanHitUpdater(prev, id) ==
    LET si == findIndex(prev.snowmen, id)
    IN  IF si = 0 \/ prev.snowmen[si].isDead THEN prev
        ELSE LET sm == prev.snowmen[si]
                 newHp == sm.hp - 1
                 isDead == newHp <= 0
                 newGifts ==
                     IF isDead
                     THEN Append(prev.gifts,
                              [id |-> rewardIdOffset + id,
                               position |-> <<sm.position[1], sm.position[2] + rewardLift,
                                              sm.position[3]>>,
                               color |-> "#ff00ff",
                               collected |-> FALSE,
                               type |-> "gingerbread",
                               rotation |-> <<0, 0, 0>>])
                     ELSE prev.gifts
                 newSnowmen == [i \in DOMAIN prev.snowmen |->
                                   IF prev.snowmen[i].id = id
                                   THEN [prev.snowmen[i] EXCEPT !.hp = newHp,
                                                                !.isDead = isDead]
                                   ELSE prev.snowmen[i]]
             IN  [prev EXCEPT !.snowmen = newSnowmen, !.gifts = newGifts]

\* startGame toggling the flag
startUpdaterToggle(prev) == [prev EXCEPT !.started = ~prev.started]

startUpdater(prev) == [prev EXCEPT !.started = TRUE]

\* the updater an event stands for
applyEvent(prev, e) ==
    CASE e.op = "collect" -> collectUpdater(prev, e.id)
      [] e.op = "hit" -> snowmanHitUpdater(prev, e.id)
      [] e.op = "start" -> startUpdater(prev)

\* the handlers computing from the state of the last render (the closure's
\* gameState) instead of prev: the last queued update overwrites the others
applyAllStale(prev, queue) ==
    IF queue = <<>> THEN prev
    ELSE applyEvent(prev, queue[Len(queue)])

\* React runs the queued updaters in the order they were queued, each on the
\* state the one before it returned
RECURSIVE applyAll(_, _)
applyAll(prev, queue) ==
    IF queue = <<>> THEN prev
    ELSE applyAll(applyEvent(prev, Head(queue)), Tail(queue))

(***************************************************************************)
(* The events the exploration issues.                                      *)
(***************************************************************************)
Draws ==
    {[seed |-> s, inside |-> [hi \in 1..4 |-> (s + hi) % 4],
      stuckScatter |-> {}, stuckSnowmen |-> {}] : s \in 0..MaxSeed}
      \cup {[seed |-> 0, inside |-> [hi \in 1..4 |-> hi % 4],
              stuckScatter |-> {0}, stuckSnowmen |-> {2}]}

collectedCount(s) == Cardinality({i \in DOMAIN s.gifts : s.gifts[i].collected})

known(s, id) == findIndex(s.gifts, id) # 0

\* collect events with an absent id that the state has absorbed
stray(s) == s.foundCount - collectedCount(s)

\* the ids of the placed gifts that are still to collect
uncollectedPlaced(s) ==
    {s.gifts[i].id : i \in {j \in DOMAIN s.gifts :
                              ~s.gifts[j].collected /\ s.gifts[j].id < rewardIdOffset}}

\* Placed gifts are collected in the order of their ids (the handlers treat
\* every id alike); gift 0, the reward ids of the snowmen that are hit and an
\* id no gift ever has are tried in every state.
CollectArgs(s) ==
    (IF uncollectedPlaced(s) = {} THEN {} ELSE {Min(uncollectedPlaced(s))})
      \cup {0}
      \cup {rewardIdOffset + i : i \in 0..MaxHitArg}
      \cup {rewardIdOffset + snowmanCount}

HitArgs == (0..MaxHitArg) \cup {snowmanCount}

\* `place` holds the last call of a placement function and what it returned,
\* `world` the run of generateWorld; the session leaves both alone
noCall == [op |-> "none"]

noWorld == [pc |-> "none"]
\* no IcePond is mounted
noPond == [pane |-> FALSE]

(***************************************************************************)
(* The session in which every event is rendered before the next is issued. *)
(***************************************************************************)
Init ==
    /\ gameState = initialState
    /\ mounted = FALSE
    /\ pending = <<>>
    /\ place = noCall
    /\ world = noWorld
    /\ pond = noPond

\* useEffect(..., []): runs once, after the first render
InitEffect ==
    /\ ~mounted
    /\ \E d \in Draws : gameState' = initUpdater(gameState, d)
    /\ mounted' = TRUE
    /\ UNCHANGED <<pending, place, world, pond>>

handleCollect(id) ==
    /\ mounted
    /\ known(gameState, id) \/ stray(gameState) < MaxStray
    /\ gameState' = applyAll(gameState, <<[op |-> "collect", id |-> id]>>)
    /\ UNCHANGED <<mounted, pending, place, world, pond>>

handleSnowmanHit(id) ==
    /\ mounted
    /\ gameState' = applyAll(gameState, <<[op |-> "hit", id |-> id]>>)
    /\ UNCHANGED <<mounted, pending, place, world, pond>>

startGame ==
    /\ mounted
    /\ gameState' = applyAll(gameState, <<[op |-> "start", id |-> 0]>>)
    /\ UNCHANGED <<mounted, pending, place, world, pond>>

Next ==
    \/ InitEffect
    \/ \E id \in CollectArgs(gameState) : handleCollect(id)
    \/ \E id \in HitArgs : handleSnowmanHit(id)
    \/ startGame

Spec == Init /\ [][Next]_vars

(***************************************************************************)
(* The session in which events are queued between two renders.  The events *)
(* come from what the last render shows: the start screen covers the scene *)
(* until the game is started and the win screen covers it once it is over; *)
(* Collectibles renders the gifts not collected, Snowmen the snowmen not    *)
(* dead.  A handler only queues its updater; render runs the queue.        *)
(***************************************************************************)
renderedGifts(s) ==
    {s.gifts[i].id : i \in {j \in DOMAIN s.gifts : ~s.gifts[j].collected}}

renderedSnowmen(s) ==
    {s.snowmen[i].id : i \in {j \in DOMAIN s.snowmen : ~s.snowmen[j].isDead}}

QueueCollectArgs(s) ==
    renderedGifts(s) \cap
       ((IF uncollectedPlaced(s) = {} THEN {} ELSE {Min(uncollectedPlaced(s))})
          \cup {rewardIdOffset + i : i \in 0..MaxBatchArg})

QueueHitArgs(s) == renderedSnowmen(s) \cap (0..MaxBatchArg)

queueCollect(id) ==
    /\ mounted /\ gameState.started /\ ~gameState.gameOver
    /\ Len(pending) < MaxPending
    /\ pending' = Append(pending, [op |-> "collect", id |-> id])
    /\ UNCHANGED <<gameState, mounted, place, world, pond>>

queueSnowmanHit(id) ==
    /\ mounted /\ gameState.started /\ ~gameState.gameOver
    /\ Len(pending) < MaxPending
    /\ pending' = Append(pending, [op |-> "hit", id |-> id])
    /\ UNCHANGED <<gameState, mounted, place, world, pond>>

queueStart ==
    /\ mounted /\ ~gameState.started
    /\ Len(pending) < MaxPending
    /\ pending' = Append(pending, [op |-> "start", id |-> 0])
    /\ UNCHANGED <<gameState, mounted, place, world, pond>>

render ==
    /\ pending # <<>>
    /\ gameState' = applyAll(gameState, pending)
    /\ pending' = <<>>
    /\ UNCHANGED <<mounted, place, world, pond>>

NextQueued ==
    \/ InitEffect
    \/ \E id \in QueueCollectArgs(gameState) : queueCollect(id)
    \/ \E id \in QueueHitArgs(gameState) : queueSnowmanHit(id)
    \/ queueStart
    \/ render

SpecQueued == Init /\ [][NextQueued]_vars

(***************************************************************************)
(* Properties of the session state machine.                                *)
(***************************************************************************)
snowmanIds(s) == {s.snowmen[i].id : i \in DOMAIN s.snowmen}

giftIds(s) == {s.gifts[i].id : i \in DOMAIN s.gifts}

\* the number of reward gifts of snowman id in the collection
rewardCount(s, id) ==
    Cardinality({i \in DOMAIN s.gifts : s.gifts[i].id = rewardIdOffset + id})

\* every id an event of the exploration may carry
AllCollectArgs == (0..targetInitial) \cup {rewardIdOffset + i : i \in 0..snowmanCount}

AllHitArgs == 0..snowmanCount

\* C1: collect(id) with an id absent from the gift collection returns the
\* session state unchanged (gifts, snowmen, foundCount, gameOver, started).
C1_CollectUnknownIsNoop ==
    mounted =>
      \A id \in AllCollectArgs :
         ~known(gameState, id) => collectUpdater(gameState, id) = gameState

\* C2: in every reachable state foundCount is the number of gifts whose
\* collected flag is true.
C2_FoundCountIsCollectedCount ==
    gameState.foundCount = collectedCount(gameState)

\* C3: for an existing gift id, collect applied twice gives the state collect
\* applied once gives, foundCount having risen by exactly 1 if the gift was not
\* collected (by 0 if it was); and a collected flag that is true stays true
\* through every later event.
C3_IdempotentState ==
    \A id \in giftIds(gameState) :
       LET once == collectUpdater(gameState, id)
           twice == collectUpdater(once, id)
           gi == findIndex(gameState.gifts, id)
       IN  /\ twice = once
           /\ once.gifts[gi].collected
           /\ twice.foundCount =
                gameState.foundCount + (IF gameState.gifts[gi].collected THEN 0 ELSE 1)

C3_CollectedStays ==
    \A i \in DOMAIN gameState.gifts :
       gameState.gifts[i].collected =>
          /\ i \in DOMAIN gameState'.gifts
          /\ gameState'.gifts[i].id = gameState.gifts[i].id
          /\ gameState'.gifts[i].collected

C3_CollectIdempotentIrreversible ==
    [](C3_IdempotentState) /\ [][C3_CollectedStays]_vars

\* a gift has been collected, and another is still to collect
C3_Witness ==
    /\ collectedCount(gameState) >= 2
    /\ uncollectedPlaced(gameState) # {}

\* C4: in every reachable state gameOver is true exactly when
\* foundCount >= 30.
C4_GameOverIffGoalReached ==
    gameState.gameOver <=> (gameState.foundCount >= totalGoals)

\* the goal has been reached
C4_Witness ==
    /\ gameState.gameOver
    /\ gameState.foundCount = totalGoals

\* C5: gameOver is false while foundCount is below 30, is true after the step
\* that takes foundCount to 30, and once true it is true after every step.
C5_Step ==
    /\ gameState.foundCount < totalGoals => ~gameState.gameOver
    /\ (gameState.foundCount < totalGoals /\ gameState'.foundCount >= totalGoals)
          => gameState'.gameOver
    /\ gameState.gameOver => gameState'.gameOver

C5_GameOverOnceAndForAll == [][C5_Step]_vars

\* an event has been absorbed after the goal was reached
C5_Witness ==
    /\ gameState.gameOver
    /\ gameState.foundCount > totalGoals

\* C6: the hit that takes a living snowman to hp <= 0 marks it dead and
\* appends exactly one gift: not collected, type gingerbread, id 1000 + the
\* snowman's id, at the snowman's position raised by 1.0 on the vertical
\* axis; no other step of a mounted session changes the number of gifts, and
\* no snowman ever has more than one reward gift.
C6_DeathStep ==
    \A i \in DOMAIN gameState.snowmen :
       LET sm == gameState.snowmen[i]
           n == Len(gameState.gifts)
       IN  (~sm.isDead /\ gameState'.snowmen[i].hp <= 0) =>
             /\ gameState'.snowmen[i].isDead
             /\ Len(gameState'.gifts) = n + 1
             /\ SubSeq(gameState'.gifts, 1, n) = gameState.gifts
             /\ gameState'.gifts[n + 1].id = 1000 + sm.id
             /\ gameState'.gifts[n + 1].collected = FALSE
             /\ gameState'.gifts[n + 1].type = "gingerbread"
             /\ gameState'.gifts[n + 1].position =
                   <<sm.position[1], sm.position[2] + 400, sm.position[3]>>

C6_GiftsGrowOnlyOnDeath ==
    (mounted /\ Len(gameState'.gifts) # Len(gameState.gifts)) =>
       \E i \in DOMAIN gameState.snowmen :
          ~gameState.snowmen[i].isDead /\ gameState'.snowmen[i].isDead

C6_AtMostOneReward ==
    \A id \in snowmanIds(gameState) : rewardCount(gameState, id) <= 1

C6_DeathSpawnsOneReward ==
    [](C6_AtMostOneReward) /\ [][C6_DeathStep /\ C6_GiftsGrowOnlyOnDeath]_vars

\* a snowman is dead and its reward gift is in the collection
C6_Witness ==
    \E i \in DOMAIN gameState.snowmen :
       /\ gameState.snowmen[i].isDead
       /\ rewardCount(gameState, gameState.snowmen[i].id) = 1

\* C7: a hit on a living snowman lowers its hp by exactly 1; from hp 3 the
\* three hits give hp 2, 1, 0, the snowman is dead after the third and not
\* before, and its reward gift exists after the third and not before; in
\* every reachable state hp is in 0..3 and isDead holds exactly when hp <= 0.
C7_HpState ==
    \A i \in DOMAIN gameState.snowmen :
       LET sm == gameState.snowmen[i]
           h1 == snowmanHitUpdater(gameState, sm.id)
           h2 == snowmanHitUpdater(h1, sm.id)
           h3 == snowmanHitUpdater(h2, sm.id)
       IN  /\ sm.hp \in 0..3
           /\ sm.isDead <=> (sm.hp <= 0)
           /\ rewardCount(gameState, sm.id) = (IF sm.isDead THEN 1 ELSE 0)
           /\ ~sm.isDead => h1.snowmen[i].hp = sm.hp - 1
           /\ sm.hp = 3 =>
                /\ <<h1.snowmen[i].hp, h2.snowmen[i].hp, h3.snowmen[i].hp>> = <<2, 1, 0>>
                /\ <<h1.snowmen[i].isDead, h2.snowmen[i].isDead, h3.snowmen[i].isDead>>
                     = <<FALSE, FALSE, TRUE>>
                /\ <<rewardCount(h1, sm.id), rewardCount(h2, sm.id), rewardCount(h3, sm.id)>>
                     = <<0, 0, 1>>

C7_HpStep ==
    \A i \in DOMAIN gameState.snowmen :
       gameState'.snowmen[i].hp # gameState.snowmen[i].hp =>
          /\ ~gameState.snowmen[i].isDead
          /\ gameState'.snowmen[i].hp = gameState.snowmen[i].hp - 1

C7_HitPointsCountDown == [](C7_HpState) /\ [][C7_HpStep]_vars

\* one snowman has taken two hits and lives, another has taken three
C7_Witness ==
    /\ \E i \in DOMAIN gameState.snowmen :
          gameState.snowmen[i].hp = 1 /\ ~gameState.snowmen[i].isDead
    /\ \E i \in DOMAIN gameState.snowmen :
          gameState.snowmen[i].hp = 0 /\ gameState.snowmen[i].isDead

\* C8: hit(id) with an id no snowman has, or the id of a dead snowman,
\* returns the session state unchanged.
C8_HitUnknownOrDeadIsNoop ==
    mounted =>
      \A id \in AllHitArgs :
         LET si == findIndex(gameState.snowmen, id)
         IN  (si = 0 \/ gameState.snowmen[si].isDead) =>
                snowmanHitUpdater(gameState, id) = gameState

\* a snowman is dead, its reward gift collected, and another snowman lives
C8_Witness ==
    /\ \E i \in DOMAIN gameState.snowmen :
          /\ gameState.snowmen[i].isDead
          /\ \E j \in DOMAIN gameState.gifts :
                /\ gameState.gifts[j].id = rewardIdOffset + gameState.snowmen[i].id
                /\ gameState.gifts[j].collected
    /\ \E i \in DOMAIN gameState.snowmen : ~gameState.snowmen[i].isDead

\* C9: the events queued between two renders are applied one at a time, in
\* order, each to the state the one before left: after the render a snowman
\* has lost one hit point per queued hit down to 0, is dead exactly when it
\* reached 0 and has exactly one reward gift if dead (two hits queued against
\* a snowman with 1 hit point give hp 0 and one reward); every queued collect
\* of a gift has set its flag, and foundCount has risen by the number of
\* distinct gifts collected (two collects of the same gift raise it by 1);
\* a queued start has started the game.
queuedCount(op, id) ==
    Cardinality({k \in DOMAIN pending : pending[k].op = op /\ pending[k].id = id})

C9_RenderStep ==
    (pending # <<>> /\ pending' = <<>>) =>
       /\ \A i \in DOMAIN gameState.snowmen :
             LET sm == gameState.snowmen[i]
                 hits == queuedCount("hit", sm.id)
                 hp == IF sm.isDead THEN sm.hp
                       ELSE IF sm.hp - hits > 0 THEN sm.hp - hits ELSE 0
             IN  /\ gameState'.snowmen[i].hp = hp
                 /\ gameState'.snowmen[i].isDead = (hp <= 0)
                 /\ rewardCount(gameState', sm.id) = (IF hp <= 0 THEN 1 ELSE 0)
       /\ \A i \in DOMAIN gameState.gifts :
             gameState'.gifts[i].collected =
                (gameState.gifts[i].collected
                   \/ queuedCount("collect", gameState.gifts[i].id) > 0)
       /\ gameState'.foundCount =
             gameState.foundCount
               + Cardinality({id \in renderedGifts(gameState) :
                                 queuedCount("collect", id) > 0})
       /\ gameState'.started = (gameState.started \/ queuedCount("start", 0) > 0)
       /\ Len(gameState'.gifts) =
             Len(gameState.gifts)
               + Cardinality({i \in DOMAIN gameState.snowmen :
                                 ~gameState.snowmen[i].isDead
                                   /\ gameState'.snowmen[i].isDead})

C9_QueuedEventsApplyInOrder == [][C9_RenderStep]_vars

\* two hits are queued against a snowman with 1 hit point left
C9_Witness ==
    /\ Len(pending) = 2
    /\ pending[1] = pending[2]
    /\ pending[1].op = "hit"
    /\ \E i \in DOMAIN gameState.snowmen :
          gameState.snowmen[i].id = pending[1].id /\ gameState.snowmen[i].hp = 1

\* C10: start() gives a state with started true and gifts, snowmen,
\* foundCount and gameOver as before; applied again it changes nothing; the
\* session starts not started, and started never goes back to false.
C10_StartState ==
    LET s1 == startUpdater(gameState)
    IN  /\ s1.started
        /\ s1.gifts = gameState.gifts
        /\ s1.snowmen = gameState.snowmen
        /\ s1.foundCount = gameState.foundCount
        /\ s1.gameOver = gameState.gameOver
        /\ startUpdater(s1) = s1
        /\ ~mounted => ~gameState.started

C10_StartStep ==
    /\ gameState.started => gameState'.started
    /\ (~gameState.started /\ gameState'.started) =>
          /\ gameState'.gifts = gameState.gifts
          /\ gameState'.snowmen = gameState.snowmen
          /\ gameState'.foundCount = gameState.foundCount
          /\ gameState'.gameOver = gameState.gameOver

C10_StartOneWay == [](C10_StartState) /\ [][C10_StartStep]_vars

\* the game was started and events were absorbed after that
C10_Witness ==
    /\ gameState.started
    /\ gameState.foundCount > 0
    /\ \E i \in DOMAIN gameState.snowmen : gameState.snowmen[i].hp < 3

(***************************************************************************)
(* The placement functions on their own.  The mount effect calls           *)
(* generateGifts(30) and generateSnowmen(5); the placement code calls      *)
(* getTerrainVoxelY.  A call is made on inputs drawn from bounded sets and *)
(* `place` records the call and what it returned.                          *)
(***************************************************************************)
\* the quarters drawn for the four houses: each house holds 1 or 2 gifts
Insides == [1..4 -> {0, 3}]

\* no slot or one slot of the scatter, no snowman or one random snowman,
\* draws only samples inside the exclusion radius
StuckSets(first) == {{}} \cup {{first + k} : k \in 0..(MaxStuck - 1)}

PlaceDraws ==
    {[seed |-> s, inside |-> ins, stuckScatter |-> ss, stuckSnowmen |-> sn] :
        s \in 0..MaxPlaceSeed, ins \in Insides,
        ss \in StuckSets(0), sn \in StuckSets(2)}

\* the points getTerrainVoxelY is asked about
TerrainPoints == DOMAIN noiseFloor

InitPlace ==
    /\ gameState = initialState
    /\ mounted = FALSE
    /\ pending = <<>>
    /\ place = noCall
    /\ world = noWorld
    /\ pond = noPond

callGenerateGifts ==
    /\ place.op = "none"
    /\ \E d \in PlaceDraws :
          place' = [op |-> "generateGifts", draw |-> d, count |-> giftCount,
                    gifts |-> generateGifts(giftCount, d)]
    /\ UNCHANGED <<gameState, mounted, pending, world, pond>>

callGenerateSnowmen ==
    /\ place.op = "none"
    /\ \E d \in PlaceDraws :
          place' = [op |-> "generateSnowmen", draw |-> d, count |-> snowmanCount,
                    snowmen |-> generateSnowmen(snowmanCount, d)]
    /\ UNCHANGED <<gameState, mounted, pending, world, pond>>

callGetTerrainVoxelY ==
    /\ place.op = "none"
    /\ \E p \in TerrainPoints :
          place' = [op |-> "getTerrainVoxelY", at |-> p,
                    y |-> getTerrainVoxelY(p[1], p[2])]
    /\ UNCHANGED <<gameState, mounted, pending, world, pond>>

NextPlace ==
    \/ callGenerateGifts
    \/ callGenerateSnowmen
    \/ callGetTerrainVoxelY

SpecPlace == InitPlace /\ [][NextPlace]_vars

(***************************************************************************)
(* Properties of the placement functions.                                  *)
(***************************************************************************)
\* the number of gifts each strategy of generateGifts added under draw d
strategyCounts(d) ==
    LET g0 == [gifts |-> <<>>, idCounter |-> 0]
        g1 == placeOnTree(g0, 0, d)
        g2 == placeInHouses(g1, 1, d)
        g3 == placeOnPond(g2, 0, d)
    IN  [tree |-> Len(g1.gifts),
         building |-> Len(g2.gifts) - Len(g1.gifts),
         pond |-> Len(g3.gifts) - Len(g2.gifts),
         beforeScatter |-> Len(g3.gifts)]

\* scatter slot i drew 50 samples inside the exclusion radius
scatterExhausted(d, i) ==
    \A a \in 1..scatterAttempts :
        LET p == scatterSample(d, i, a)
        IN  p[1] * p[1] + p[2] * p[2] < scatterExclusion * scatterExclusion

\* C13: for every outcome of the random draws generateGifts(30) returns at
\* least 25 and at most 30 gifts: 12 tree gifts, 4 to 8 building gifts, 4
\* pond gifts and the scattered remainder.
C13_BetweenTargetAndCount ==
    place.op = "generateGifts" =>
        LET c == strategyCounts(place.draw)
            n == Len(place.gifts)
        IN  /\ n >= 25 /\ n <= place.count
            /\ c.tree = 12
            /\ c.building \in 4..8
            /\ c.pond = 4
            /\ n - c.beforeScatter >= 0

\* C14 as claimed: when the tree, building and pond strategies produce fewer
\* gifts than count, the scatter adds gifts until the total equals count.
C14_ScatterFillsToCount ==
    (place.op = "generateGifts"
       /\ strategyCounts(place.draw).beforeScatter < place.count)
      => Len(place.gifts) = place.count

\* C14 amended: the scatter fills up to the fixed initial target of 25, not
\* up to count: it runs 25 - c slots when the other strategies produced
\* c < 25 gifts, each slot adds one gift unless its 50 samples were all
\* rejected, so the total is at most 25 and is 25 when no slot is exhausted.
C14_ScatterFillsToTargetInitial ==
    place.op = "generateGifts" =>
        LET c == strategyCounts(place.draw).beforeScatter
            n == Len(place.gifts)
            slots == 0..(targetInitial - c - 1)
            exhausted == {i \in slots : scatterExhausted(place.draw, i)}
        IN  /\ c < targetInitial
            /\ n = targetInitial - Cardinality(exhausted)
            /\ n <= targetInitial
            /\ targetInitial < place.count

C14_Witness ==
    /\ place.op = "generateGifts"
    /\ strategyCounts(place.draw).beforeScatter = 20
    /\ \A i \in 0..4 : ~scatterExhausted(place.draw, i)
    /\ Len(place.gifts) = 25

\* the samples the placement loop of snowman i draws: it stops at the first
\* one outside the exclusion radius
snowmanRejected(p) == p[1] * p[1] + p[2] * p[2] < snowmanExclusion * snowmanExclusion

snowmanAllRejected(d, i) ==
    \A a \in 1..snowmanAttempts : snowmanRejected(snowmanSample(d, i, a))

snowmanSamples(d, i) == {snowmanSample(d, i, a) : a \in 1..snowmanAttempts}

\* C15: a snowman with index >= 2 stands either on a sampled point at
\* distance >= 8 from the origin or, when all 20 samples were rejected, on
\* the fallback (10,10); never on a rejected sample.
C15_SnowmanSampledOrFallback ==
    place.op = "generateSnowmen" =>
        \A k \in DOMAIN place.snowmen :
            LET sm == place.snowmen[k]
                i == sm.id
                pos == <<sm.position[1] \div VOXEL_SIZE, sm.position[3] \div VOXEL_SIZE>>
            IN  i >= 2 =>
                  IF snowmanAllRejected(place.draw, i)
                  THEN pos = <<snowmanFallback, snowmanFallback>>
                  ELSE pos \in snowmanSamples(place.draw, i) /\ ~snowmanRejected(pos)

\* C16: getTerrainVoxelY applies its rules in order: nearer than 16 to the
\* pond centre (-35,35) gives -2; otherwise nearer than 5 to the origin gives
\* 0; otherwise the floor of the noise; so (0,0) gives 0 and (-35,35) gives -2.
C16_TerrainRulesInOrder ==
    place.op = "getTerrainVoxelY" =>
        LET x == place.at[1]
            z == place.at[2]
            inPond == (x + 35) * (x + 35) + (z - 35) * (z - 35) < 16 * 16
            inHub == x * x + z * z < 5 * 5
        IN  /\ inPond => place.y = -2
            /\ (~inPond /\ inHub) => place.y = 0
            /\ (~inPond /\ ~inHub) => place.y = noiseFloor[place.at]
            /\ place.at = <<0, 0>> => place.y = 0
            /\ place.at = <<-35, 35>> => place.y = -2

C16_Witness ==
    /\ place.op = "getTerrainVoxelY"
    /\ place.at = <<0, -4>>
    /\ noiseFloor[place.at] # 0
    /\ place.y = 0

\* C18: the gifts of the collection have pairwise distinct ids: the placed
\* gifts come first with the ids 0, 1, 2, ... in placement order, the reward
\* gifts follow with the id 1000 + snowman id, and no reward id equals a
\* placed id or another reward id.
C18_GiftIdsDistinct ==
    LET g == gameState.gifts
        placed == {i \in DOMAIN g : g[i].id = i - 1}
        rewards == DOMAIN g \ placed
    IN  /\ \A i \in DOMAIN g : \A j \in DOMAIN g : i # j => g[i].id # g[j].id
        /\ \A i \in placed : \A j \in rewards : i < j
        /\ \A i \in rewards :
              \E k \in DOMAIN gameState.snowmen :
                  /\ gameState.snowmen[k].isDead
                  /\ g[i].id = rewardIdOffset + gameState.snowmen[k].id
        /\ \A i \in placed : \A j \in rewards : g[i].id < g[j].id

C18_Witness ==
    /\ \E i \in DOMAIN gameState.gifts : gameState.gifts[i].id = rewardIdOffset
    /\ \E i \in DOMAIN gameState.gifts : gameState.gifts[i].id = rewardIdOffset + 1
    /\ \E i \in DOMAIN gameState.gifts : gameState.gifts[i].id = targetInitial - 1

(***************************************************************************)
(* generateWorld.  Coordinates handed to add are in sixtieths of a voxel   *)
(* (Sub), which holds the halves, thirds and tenths the generator uses     *)
(* exactly; Math.round is then exact.  The output arrays are sequences in  *)
(* the order of the pushes.  A run follows the columns (x,z) of Window     *)
(* only: a voxel lands in the column it is emitted to whatever the other   *)
(* columns hold, so the run shows these columns as the program builds them.*)
(***************************************************************************)
Sub == 60

WORLD_RADIUS == 90

\* Math.round of v sixtieths: the nearest integer, a half rounding up
round(v) == (2 * v + Sub) \div (2 * Sub)

\* the state of generateWorld before its first statement
emptyWorld(d) ==
    [pc |-> [stage |-> "createPath", i |-> 1, y |-> 0],
     draw |-> d,
     regularVoxels |-> <<>>, glowingVoxels |-> <<>>,
     interactiveIce |-> <<>>, waterVoxels |-> <<>>,
     lampCoords |-> <<>>, doors |-> <<>>,
     occupied |-> {}, pathHeightMap |-> {},
     doorRecorded |-> FALSE]

\* add without the occupancy test
addUnchecked(w, x, y, z, color, isGlowing) ==
    LET vx == round(x)
        vy == round(y)
        vz == round(z)
        key == <<vx, vy, vz>>
        voxel == [x |-> vx, y |-> vy, z |-> vz, color |-> color]
    IN  IF isGlowing
        THEN [w EXCEPT !.occupied = w.occupied \cup {key},
                       !.glowingVoxels = Append(w.glowingVoxels, voxel)]
        ELSE [w EXCEPT !.occupied = w.occupied \cup {key},
                       !.regularVoxels = Append(w.regularVoxels, voxel)]

\* add without occupied.add(key)
addUnrecorded(w, x, y, z, color, isGlowing) ==
    LET vx == round(x)
        vy == round(y)
        vz == round(z)
        key == <<vx, vy, vz>>
        voxel == [x |-> vx, y |-> vy, z |-> vz, color |-> color]
    IN  IF key \in w.occupied THEN w
        ELSE IF isGlowing
        THEN [w EXCEPT !.glowingVoxels = Append(w.glowingVoxels, voxel)]
        ELSE [w EXCEPT !.regularVoxels = Append(w.regularVoxels, voxel)]

add(w, x, y, z, color, isGlowing) ==
    LET vx == round(x)
        vy == round(y)
        vz == round(z)
        key == <<vx, vy, vz>>
        voxel == [x |-> vx, y |-> vy, z |-> vz, color |-> color]
    IN  IF key \in w.occupied THEN w
        ELSE IF isGlowing
        THEN [w EXCEPT !.occupied = w.occupied \cup {key},
                       !.glowingVoxels = Append(w.glowingVoxels, voxel)]
        ELSE [w EXCEPT !.occupied = w.occupied \cup {key},
                       !.regularVoxels = Append(w.regularVoxels, voxel)]

\* Math.random() > c for a threshold c: both outcomes occur over the draws
chance(d, k) == (d.seed + k) % 2 = 1

PALETTE ==
    [SNOW |-> "SNOW", SNOW_SHADOW |-> "SNOW_SHADOW", DIRT |-> "DIRT", STONE |-> "STONE",
     PATH |-> "PATH", ICE |-> "ICE", WATER |-> "WATER",
     BRICK_MAIN |-> "BRICK_MAIN", BRICK_DARK |-> "BRICK_DARK",
     ROOF_SLATE |-> "ROOF_SLATE", WOOD_TRUNK |-> "WOOD_TRUNK",
     WOOD_PLANKS |-> "WOOD_PLANKS",
     LEAF_DARK |-> "LEAF_DARK", LEAF_LIGHT |-> "LEAF_LIGHT", LEAF_SNOWY |-> "LEAF_SNOWY",
     DECOR_RED |-> "DECOR_RED", DECOR_GOLD |-> "DECOR_GOLD",
     DECOR_SILVER |-> "DECOR_SILVER", DECOR_ROYAL_BLUE |-> "DECOR_ROYAL_BLUE",
     DECOR_PURPLE |-> "DECOR_PURPLE", DECOR_PINK |-> "DECOR_PINK",
     LIGHT_STRING |-> "LIGHT_STRING", LIGHT_WARM |-> "LIGHT_WARM",
     STAR_CORE |-> "STAR_CORE", STAR_GLOW |-> "STAR_GLOW",
     LAMP_WARM |-> "LAMP_WARM", LAMP_POST |-> "LAMP_POST", SMOKE |-> "0xaaaaaa"]

buildings ==
    << [x |-> 50, z |-> 0, w |-> 12, d |-> 16, h |-> 12, r |-> 1],
       [x |-> 30, z |-> -50, w |-> 10, d |-> 12, h |-> 10, r |-> 0],
       [x |-> -40, z |-> -40, w |-> 14, d |-> 10, h |-> 14, r |-> 1],
       [x |-> 0, z |-> 60, w |-> 16, d |-> 12, h |-> 11, r |-> 1] >>

(***************************************************************************)
(* The calls of createPath, in program order.  Widths are in halves of a   *)
(* voxel (1.5 is 3, 3 is 6).                                               *)
(***************************************************************************)
hubPath(b) == [x1 |-> 0, z1 |-> 0, x2 |-> b.x, z2 |-> b.z, width |-> 3]

doorPath(b) ==
    IF b.r = 0
    THEN LET doorZ == b.z + b.d \div 2
         IN  [x1 |-> b.x, z1 |-> doorZ, x2 |-> b.x, z2 |-> doorZ + 4, width |-> 6]
    ELSE LET doorX == b.x - b.d \div 2
         IN  [x1 |-> doorX, z1 |-> b.z, x2 |-> doorX - 4, z2 |-> b.z, width |-> 6]

link(x1, z1, x2, z2) == [x1 |-> x1, z1 |-> z1, x2 |-> x2, z2 |-> z2, width |-> 3]

pathCalls ==
    << hubPath(buildings[1]), doorPath(buildings[1]),
       hubPath(buildings[2]), doorPath(buildings[2]),
       hubPath(buildings[3]), doorPath(buildings[3]),
       hubPath(buildings[4]), doorPath(buildings[4]),
       link(0, 0, -35, 35),
       link(buildings[1].x, buildings[1].z, buildings[2].x, buildings[2].z),
       link(buildings[2].x, buildings[2].z, buildings[3].x, buildings[3].z),
       link(buildings[3].x, buildings[3].z, -35, 35),
       link(-35, 35, buildings[4].x, buildings[4].z),
       link(buildings[4].x, buildings[4].z, buildings[1].x, buildings[1].z) >>

\* dist * dist of a path
pathDistSq(p) == (p.x2 - p.x1) * (p.x2 - p.x1) + (p.z2 - p.z1) * (p.z2 - p.z1)

\* Math.ceil(dist * 2): the least n with n * n >= 4 * dist * dist
pathSteps(p) ==
    CHOOSE n \in 0..(4 * WORLD_RADIUS) :
        /\ n * n >= 4 * pathDistSq(p)
        /\ n = 0 \/ (n - 1) * (n - 1) < 4 * pathDistSq(p)

\* the cells createPath writes into pathHeightMap: Math.round(cx + ox) and
\* Math.round(cz + oz) with cx = x1 + (x2 - x1) * i / steps, ox = a / 2
pathCells(p) ==
    LET n == pathSteps(p)
    IN  {<<(2 * (p.x1 * n + (p.x2 - p.x1) * i) + (a + 1) * n) \div (2 * n),
           (2 * (p.z1 * n + (p.z2 - p.z1) * i) + (b + 1) * n) \div (2 * n)>> :
             i \in 0..n, a \in (-p.width)..p.width, b \in (-p.width)..p.width}

lampSpacing == 25

\* Math.floor(dist / lampSpacing)
numLamps(p) ==
    CHOOSE m \in 0..8 :
        /\ lampSpacing * lampSpacing * m * m <= pathDistSq(p)
        /\ pathDistSq(p) < lampSpacing * lampSpacing * (m + 1) * (m + 1)

\* Math.round(lx + Math.random() * 0.5), lx = x1 + (x2 - x1) * i / numLamps,
\* the random number being the quarter q
lampX(p, i, q) ==
    LET n == numLamps(p)
    IN  (8 * (p.x1 * n + (p.x2 - p.x1) * i) + q * n + 4 * n) \div (8 * n)

\* Math.round(lz + side * 2.5), side = (i % 2 === 0) ? 1 : -1
lampZ(p, i) ==
    LET n == numLamps(p)
        side == IF i % 2 = 0 THEN 1 ELSE -1
    IN  (2 * (p.z1 * n + (p.z2 - p.z1) * i) + side * 5 * n + n) \div (2 * n)

(***************************************************************************)
(* The columns a run follows: those of every lamp post the draws can place *)
(* and a sample of the pond, the rim, the hub, the star, the open terrain, *)
(* the rim of the world and two houses.                                    *)
(***************************************************************************)
LampSites ==
    {<<lampX(pathCalls[ki[1]], ki[2], q), lampZ(pathCalls[ki[1]], ki[2])>> :
        ki \in {c \in (DOMAIN pathCalls) \X (1..2) : c[2] < numLamps(pathCalls[c[1]])},
        q \in 0..3}

LampColumns ==
    {<<s[1] + o[1], s[2] + o[2]>> :
        s \in LampSites, o \in {<<0, 0>>, <<0, 1>>, <<0, -1>>, <<1, 0>>, <<-1, 0>>}}

SampleColumns ==
    {<<-35, 35>>, <<-30, 40>>, <<-50, 40>>, <<-20, 35>>,
     <<-35, 52>>, <<-18, 35>>, <<-23, 23>>,
     <<0, 0>>, <<1, 0>>, <<2, 0>>, <<3, 0>>, <<-4, 0>>, <<3, 3>>, <<0, -4>>,
     <<40, -30>>, <<10, 10>>, <<90, 0>>, <<64, 64>>,
     <<28, -45>>, <<28, -44>>, <<27, -44>>, <<30, -44>>, <<33, -50>>, <<30, -50>>,
     <<43, -2>>, <<42, -2>>, <<50, 4>>}

Window == LampColumns \cup SampleColumns

\* an emission lands in a column the run follows
inWindow(e) == <<round(e.x), round(e.z)>> \in Window

\* the calls of add of a list of emissions, in order
RECURSIVE addAll(_, _)
addAll(w, ems) ==
    IF ems = <<>> THEN w
    ELSE addAll(add(w, Head(ems).x, Head(ems).y, Head(ems).z, Head(ems).color,
                    Head(ems).isGlowing),
                Tail(ems))

\* the calls of add of a list of emissions that the run follows
putAll(w, ems) == addAll(w, SelectSeq(ems, inWindow))

emission(x, y, z, color, isGlowing) ==
    [x |-> x, y |-> y, z |-> z, color |-> color, isGlowing |-> isGlowing]

poleHeight == 9

\* buildLamp: x, y, z in voxels; 0.5 is Sub / 2 and 0.6 is 6 * Sub / 10
buildLamp(w, x, y, z) ==
    LET armY == (y + poleHeight - 1) * Sub
        lightY == armY - Sub \div 2
        pole == [k \in 1..poleHeight |->
                    emission(x * Sub, (y + k - 1) * Sub, z * Sub, PALETTE.LAMP_POST, FALSE)]
        rest ==
            << emission(x * Sub, armY, z * Sub, PALETTE.LAMP_POST, FALSE),
               emission(x * Sub, armY + Sub \div 2, z * Sub, PALETTE.LAMP_POST, FALSE),
               emission(x * Sub, lightY, z * Sub + (6 * Sub) \div 10, PALETTE.LAMP_POST, FALSE),
               emission(x * Sub, lightY, z * Sub - (6 * Sub) \div 10, PALETTE.LAMP_POST, FALSE),
               emission(x * Sub + (6 * Sub) \div 10, lightY, z * Sub, PALETTE.LAMP_POST, FALSE),
               emission(x * Sub - (6 * Sub) \div 10, lightY, z * Sub, PALETTE.LAMP_POST, FALSE),
               emission(x * Sub, lightY, z * Sub, PALETTE.LAMP_WARM, TRUE) >>
        built == putAll(w, pole \o rest)
    IN  [built EXCEPT !.lampCoords =
            Append(built.lampCoords,
                   [x |-> x * VOXEL_SIZE,
                    y |-> ((lightY - Sub) * VOXEL_SIZE) \div Sub,
                    z |-> z * VOXEL_SIZE])]

\* the lamp loop of createPath call number k, from lamp i on
RECURSIVE buildLamps(_, _, _)
buildLamps(w, k, i) ==
    LET p == pathCalls[k]
    IN  IF ~(i < numLamps(p)) THEN w
        ELSE buildLamps(buildLamp(w, lampX(p, i, random(w.draw, k + i)), 0, lampZ(p, i)),
                        k, i + 1)

\* createPath call number k
createPath(w, k) ==
    LET p == pathCalls[k]
        marked == [w EXCEPT !.pathHeightMap = w.pathHeightMap \cup pathCells(p)]
    IN  IF pathDistSq(p) > 10 * 10 THEN buildLamps(marked, k, 1) ELSE marked

(***************************************************************************)
(* buildHouse.  One step of the run is one layer y of the shell loop, or   *)
(* one layer of the chimney loop.                                          *)
(***************************************************************************)
Abs(v) == IF v < 0 THEN -v ELSE v

\* rotate, on sixtieths: local (x, z) to world
rotate(b, x, z) ==
    IF b.r = 0 THEN [x |-> b.x * Sub + x, z |-> b.z * Sub + z]
    ELSE [x |-> b.x * Sub - z, z |-> b.z * Sub + x]

\* the wall shell: Math.abs(x) >= width/2 - 1 || Math.abs(z) >= depth/2 - 1
isShell(b, x, z) == Abs(x) >= b.w \div 2 - 1 \/ Abs(z) >= b.d \div 2 - 1

\* Math.abs(z - depth/2) < 1.5
isFront(b, z) == 2 * Abs(z - b.d \div 2) < 3

\* the door gap: isFront && isDoorX && isDoorY
isDoorGap(b, x, y, z) == isFront(b, z) /\ (x >= -2 /\ x <= 1) /\ y < 7

\* what the shell loop emits for the local cell (x, z) of layer y
houseCell(b, x, y, z, d) ==
    LET pos == rotate(b, x * Sub, z * Sub)
    IN  IF y < b.h
        THEN IF isShell(b, x, z)
             THEN IF isDoorGap(b, x, y, z) THEN <<>>
                  ELSE LET isDarkBrick == (Abs(x * 3 + y * 2 + z) % 7 < 2)
                                             \/ chance(d, x + y + z)
                           col == IF isDarkBrick THEN PALETTE.BRICK_DARK
                                  ELSE PALETTE.BRICK_MAIN
                           isWindowH == (y > 3 /\ y < 7) \/ (y > b.h - 6 /\ y < b.h - 2)
                           isWindowX == Abs(x) < 2
                                          \/ (b.w > 10 /\ Abs(4 * Abs(x) - b.w) < 8)
                       IN  IF isFront(b, z) /\ isWindowH /\ isWindowX
                           THEN <<emission(pos.x, y * Sub, pos.z, PALETTE.LIGHT_WARM, TRUE)>>
                           ELSE <<emission(pos.x, y * Sub, pos.z, col, FALSE)>>
             ELSE IF y = 0
                  THEN <<emission(pos.x, y * Sub, pos.z, PALETTE.WOOD_PLANKS, FALSE)>>
                  ELSE <<>>
        ELSE LET roofY == y - b.h
                 \* Math.abs(x) <= (width/2 + 1) * (1 - roofY/8)
                 underRoof == 8 * Abs(x) <= (b.w \div 2 + 1) * (8 - roofY)
                                /\ Abs(z) <= b.d \div 2 + 1
                 isSnowTop == roofY > 6 \/ chance(d, x + y + z)
             IN  IF underRoof
                 THEN <<emission(pos.x, y * Sub, pos.z,
                                 IF isSnowTop THEN PALETTE.SNOW ELSE PALETTE.ROOF_SLATE,
                                 FALSE)>>
                 ELSE <<>>

\* the cells (x, z) of a set, in the order of a loop over x with a loop over z inside
RECURSIVE inLoopOrder(_)
inLoopOrder(cells) ==
    IF cells = {} THEN <<>>
    ELSE LET first == CHOOSE c \in cells :
                          \A e \in cells : c[1] < e[1] \/ (c[1] = e[1] /\ c[2] <= e[2])
         IN  <<first>> \o inLoopOrder(cells \ {first})

RECURSIVE concat(_)
concat(seqs) == IF seqs = <<>> THEN <<>> ELSE Head(seqs) \o concat(Tail(seqs))

\* the local cells of building b that stand on a column of Window
houseCells(b) ==
    inLoopOrder({c \in ((-(b.w \div 2))..(b.w \div 2)) \X ((-(b.d \div 2))..(b.d \div 2)) :
                    LET pos == rotate(b, c[1] * Sub, c[2] * Sub)
                    IN  <<round(pos.x), round(pos.z)>> \in Window})

\* the door pushed by layer y: the hinge rotate(-2.5, depth/2) in world units
\* (groundY = 0) and the rotation in units of PI/2
doorOf(b) ==
    LET hingePos == rotate(b, -(5 * Sub) \div 2, (b.d \div 2) * Sub)
    IN  [position |-> <<(hingePos.x * VOXEL_SIZE) \div Sub, 0,
                        (hingePos.z * VOXEL_SIZE) \div Sub>>,
         rotation |-> IF b.r = 0 THEN 0 ELSE -1]

\* the iterations of layer y that reach the test !doorRecorded && x === -2 && y === 0
doorIterations(b, y) ==
    {z \in (-(b.d \div 2))..(b.d \div 2) :
        isShell(b, -2, z) /\ isDoorGap(b, -2, y, z) /\ y = 0}

\* the doors pushed with the flag doorRecorded ignored: one per iteration
recordDoorEveryIteration(w, b, y) ==
    [w EXCEPT !.doors = w.doors \o [k \in 1..Cardinality(doorIterations(b, y)) |-> doorOf(b)],
              !.doorRecorded = doorIterations(b, y) # {} \/ w.doorRecorded]

recordDoor(w, b, y) ==
    IF doorIterations(b, y) # {} /\ ~w.doorRecorded
    THEN [w EXCEPT !.doors = Append(w.doors, doorOf(b)), !.doorRecorded = TRUE]
    ELSE w

\* layer y of the shell loop of buildHouse(b): let doorRecorded = false before layer 0
houseLayer(w, b, y) ==
    LET entered == IF y = 0 THEN [w EXCEPT !.doorRecorded = FALSE] ELSE w
        cs == houseCells(b)
        ems == concat([k \in DOMAIN cs |-> houseCell(b, cs[k][1], y, cs[k][2], w.draw)])
    IN  putAll(recordDoor(entered, b, y), ems)

\* the layers of the chimney loop: y = height/2 + j while y < height + 10
chimneyLayers(b) == {j \in 0..(b.h + 10) : 2 * j + b.h < 2 * (b.h + 10)}

\* layer j of the chimney loop; chimneyX = width/3, chimneyZ = 0
chimneyLayer(w, b, j) ==
    LET y == (b.h * Sub) \div 2 + j * Sub
        isSmoke == y > (b.h + 8) * Sub
        cell(c) ==
            LET pos == rotate(b, (b.w * Sub) \div 3 + c[1] * Sub, c[2] * Sub)
            IN  IF isSmoke
                THEN IF chance(w.draw, j) /\ c[1] = 0 /\ c[2] = 0
                     THEN <<emission(pos.x, y + (random(w.draw, j) * Sub) \div 2, pos.z,
                                     PALETTE.SMOKE, FALSE)>>
                     ELSE <<>>
                ELSE <<emission(pos.x, y, pos.z, PALETTE.BRICK_DARK, FALSE)>>
        cs == inLoopOrder((-1..1) \X (-1..1))
    IN  putAll(w, concat([k \in DOMAIN cs |-> cell(cs[k])]))

(***************************************************************************)
(* The terrain loop.  One step of the run is one column (x, z).            *)
(***************************************************************************)
worldPondRadius == 18

pondIceY == -2

pondWaterY == -6

\* Math.ceil(totalDepth) of a column, totalDepth = Math.max(5, structuralDepth +
\* bottomNoise): bottomY = Math.floor(surfaceY - totalDepth) = surfaceY - islandDepth
islandDepth ==
    <<-50,40>> :> 16 @@ <<-39,-17>> :> 34 @@ <<-38,-18>> :> 33 @@ <<-38,-17>> :> 33 @@
    <<-38,-16>> :> 34 @@ <<-38,13>> :> 35 @@ <<-37,-17>> :> 33 @@ <<-37,12>> :> 35 @@
    <<-37,13>> :> 35 @@ <<-37,14>> :> 34 @@ <<-36,12>> :> 35 @@ <<-36,13>> :> 34 @@
    <<-36,14>> :> 34 @@ <<-35,13>> :> 34 @@ <<-35,35>> :> 31 @@ <<-35,52>> :> 21 @@
    <<-30,40>> :> 32 @@ <<-23,23>> :> 39 @@ <<-21,-22>> :> 41 @@ <<-20,-23>> :> 42 @@
    <<-20,-22>> :> 42 @@ <<-20,-21>> :> 42 @@ <<-20,35>> :> 37 @@ <<-19,-22>> :> 42 @@
    <<-18,35>> :> 36 @@ <<-6,-47>> :> 29 @@ <<-5,-48>> :> 29 @@ <<-5,-47>> :> 30 @@
    <<-5,-46>> :> 30 @@ <<-4,-47>> :> 31 @@ <<-4,0>> :> 44 @@ <<-1,28>> :> 42 @@
    <<0,-4>> :> 47 @@ <<0,0>> :> 47 @@ <<0,27>> :> 42 @@ <<0,28>> :> 42 @@
    <<0,29>> :> 42 @@ <<1,0>> :> 48 @@ <<1,28>> :> 42 @@ <<2,0>> :> 48 @@
    <<3,0>> :> 48 @@ <<3,3>> :> 48 @@ <<10,10>> :> 42 @@ <<14,-27>> :> 36 @@
    <<15,-28>> :> 37 @@ <<15,-27>> :> 37 @@ <<15,-26>> :> 37 @@ <<16,-27>> :> 37 @@
    <<16,38>> :> 37 @@ <<17,37>> :> 37 @@ <<17,38>> :> 37 @@ <<17,39>> :> 37 @@
    <<18,38>> :> 37 @@ <<24,-2>> :> 41 @@ <<25,-3>> :> 40 @@ <<25,-2>> :> 39 @@
    <<25,-1>> :> 39 @@ <<26,-2>> :> 38 @@ <<27,-44>> :> 25 @@ <<28,-45>> :> 24 @@
    <<28,-44>> :> 24 @@ <<30,-50>> :> 22 @@ <<30,-44>> :> 22 @@ <<32,23>> :> 37 @@
    <<33,-50>> :> 21 @@ <<33,22>> :> 37 @@ <<33,23>> :> 37 @@ <<33,24>> :> 36 @@
    <<34,22>> :> 37 @@ <<34,23>> :> 37 @@ <<34,24>> :> 36 @@ <<35,23>> :> 36 @@
    <<39,-27>> :> 34 @@ <<40,-30>> :> 32 @@ <<40,-28>> :> 33 @@ <<40,-27>> :> 33 @@
    <<40,-26>> :> 34 @@ <<41,-27>> :> 33 @@ <<42,-2>> :> 36 @@ <<43,-2>> :> 36 @@
    <<50,4>> :> 31 @@ <<90,0>> :> 5

\* the surface choice with the path test before the pond test
surfaceOfPathFirst(w, x, z) ==
    LET isPath == <<x, z>> \in w.pathHeightMap
        distToPondSq == (x + 35) * (x + 35) + (z - 35) * (z - 35)
        isPond == distToPondSq < worldPondRadius * worldPondRadius
    IN  IF isPath
        THEN [surfaceY |-> 0, surfaceColor |-> PALETTE.PATH,
              isIceSurface |-> FALSE, isPath |-> isPath]
        ELSE IF isPond
        THEN IF distToPondSq < (worldPondRadius - 2) * (worldPondRadius - 2)
             THEN [surfaceY |-> pondIceY, surfaceColor |-> PALETTE.SNOW,
                   isIceSurface |-> TRUE, isPath |-> isPath]
             ELSE [surfaceY |-> -1, surfaceColor |-> PALETTE.DIRT,
                   isIceSurface |-> FALSE, isPath |-> isPath]
        ELSE LET surfaceY == noiseFloor[<<x, z>>]
             IN  [surfaceY |-> surfaceY,
                  surfaceColor |-> IF chance(w.draw, x + z) /\ surfaceY > 2
                                   THEN PALETTE.SNOW_SHADOW ELSE PALETTE.SNOW,
                  isIceSurface |-> FALSE, isPath |-> isPath]

\* the surface the terrain loop chooses for column (x, z)
surfaceOf(w, x, z) ==
    LET isPath == <<x, z>> \in w.pathHeightMap
        distToPondSq == (x + 35) * (x + 35) + (z - 35) * (z - 35)
        isPond == distToPondSq < worldPondRadius * worldPondRadius
    IN  IF isPond
        THEN IF distToPondSq < (worldPondRadius - 2) * (worldPondRadius - 2)
             THEN [surfaceY |-> pondIceY, surfaceColor |-> PALETTE.SNOW,
                   isIceSurface |-> TRUE, isPath |-> isPath]
             ELSE [surfaceY |-> -1, surfaceColor |-> PALETTE.DIRT,
                   isIceSurface |-> FALSE, isPath |-> isPath]
        ELSE IF isPath
        THEN [surfaceY |-> 0, surfaceColor |-> PALETTE.PATH,
              isIceSurface |-> FALSE, isPath |-> isPath]
        ELSE LET surfaceY == noiseFloor[<<x, z>>]
             IN  [surfaceY |-> surfaceY,
                  surfaceColor |-> IF chance(w.draw, x + z) /\ surfaceY > 2
                                   THEN PALETTE.SNOW_SHADOW ELSE PALETTE.SNOW,
                  isIceSurface |-> FALSE, isPath |-> isPath]

\* the loop over y without the pond branch: every column as normal terrain
columnCellNoPit(w, x, z, s, bottomY, y) ==
    LET depthFromSurface == s.surfaceY - y
        heightFromBottom == y - bottomY
    IN  IF depthFromSurface <= 7 \/ heightFromBottom <= 2
        THEN LET color == IF y = s.surfaceY THEN s.surfaceColor
                          ELSE IF depthFromSurface <= 2 /\ ~s.isPath THEN PALETTE.DIRT
                          ELSE IF chance(w.draw, x + y + z) THEN PALETTE.DIRT
                          ELSE PALETTE.STONE
             IN  <<emission(x * Sub, y * Sub, z * Sub, color, FALSE)>>
        ELSE <<>>

\* what the loop over y emits through add at height y of the column
columnCell(w, x, z, s, bottomY, y) ==
    LET depthFromSurface == s.surfaceY - y
        heightFromBottom == y - bottomY
    IN  IF s.isIceSurface
        THEN IF y < pondWaterY
             THEN IF y = pondWaterY - 1
                  THEN <<emission(x * Sub, y * Sub, z * Sub, PALETTE.DIRT, FALSE)>>
                  ELSE IF heightFromBottom < 2
                  THEN <<emission(x * Sub, y * Sub, z * Sub, PALETTE.STONE, FALSE)>>
                  ELSE <<>>
             ELSE <<>>
        ELSE IF depthFromSurface <= 7 \/ heightFromBottom <= 2
        THEN LET color == IF y = s.surfaceY THEN s.surfaceColor
                          ELSE IF depthFromSurface <= 2 /\ ~s.isPath THEN PALETTE.DIRT
                          ELSE IF chance(w.draw, x + y + z) THEN PALETTE.DIRT
                          ELSE PALETTE.STONE
             IN  <<emission(x * Sub, y * Sub, z * Sub, color, FALSE)>>
        ELSE <<>>

\* one iteration of the loop over (x, z): the ice and the water voxel are
\* pushed onto their arrays directly, the others go through add
terrainColumn(w, x, z) ==
    IF x * x + z * z > WORLD_RADIUS * WORLD_RADIUS THEN w
    ELSE LET s == surfaceOf(w, x, z)
             bottomY == s.surfaceY - islandDepth[<<x, z>>]
             ems == concat([k \in 1..(s.surfaceY - bottomY + 1) |->
                               columnCell(w, x, z, s, bottomY, bottomY + k - 1)])
             added == addAll(w, ems)
             ys == bottomY..s.surfaceY
         IN  [added EXCEPT
                !.waterVoxels =
                    IF s.isIceSurface /\ pondWaterY \in ys
                    THEN Append(added.waterVoxels,
                                [x |-> x, y |-> pondWaterY, z |-> z, color |-> PALETTE.WATER])
                    ELSE added.waterVoxels,
                !.interactiveIce =
                    IF s.isIceSurface /\ pondIceY \in ys
                    THEN Append(added.interactiveIce,
                                [x |-> x, y |-> pondIceY, z |-> z, color |-> PALETTE.ICE])
                    ELSE added.interactiveIce]

\* the columns of Window in the order of the terrain loop
terrainColumns == inLoopOrder(Window)

(***************************************************************************)
(* The tree and the star.  One step is one layer of the trunk, one layer   *)
(* of the canopy, or the star.                                             *)
(***************************************************************************)
trunkLayers == 25

\* trunkR = Math.max(2, 4 - y * 0.05), in twentieths of a voxel
trunkR(y) == IF 80 - y > 40 THEN 80 - y ELSE 40

\* layer y of the trunk: x and z run from -trunkR in steps of 1 up to trunkR
trunkLayer(w, y) ==
    LET r == trunkR(y)
        n == (2 * r) \div 20
        cell(kx, kz) ==
            LET x == 20 * kx - r
                z == 20 * kz - r
            IN  IF x * x + z * z <= r * r
                THEN <<emission(x * (Sub \div 20), y * Sub, z * (Sub \div 20),
                                PALETTE.WOOD_TRUNK, FALSE)>>
                ELSE <<>>
    IN  putAll(w, concat([i \in 1..(n + 1) |->
                             concat([j \in 1..(n + 1) |-> cell(i - 1, j - 1)])]))

canopyFrom == 8

\* Math.floor(currentRadius * currentRadius) for y = 8..99,
\* currentRadius = 32 * (1 - y/100) + Math.sin(y * 0.5) * 1.5
canopyRadiusSq ==
    <<
       801, 764, 748, 751, 769, 793, 812, 818, 804, 770, 721, 666, 614, 574, 550, 544,
       552, 571, 590, 603, 601, 581, 546, 501, 454, 415, 387, 373, 374, 385, 402, 417,
       423, 415, 392, 359, 320, 284, 256, 239, 233, 238, 249, 263, 272, 272, 260, 238,
       209, 180, 154, 137, 128, 127, 133, 143, 152, 156, 153, 140, 121, 100, 80, 65,
       55, 52, 54, 59, 66, 71, 72, 66, 56, 43, 30, 20, 14, 10, 10, 12,
       14, 18, 20, 19, 15, 9, 4, 1, 0, 0, 0, 0 >>

\* Math.floor((currentRadius - 3) * (currentRadius - 3)) for y = 8..99
canopyInnerSq ==
    <<
       640, 607, 593, 596, 612, 633, 650, 655, 643, 612, 569, 520, 474, 439, 418, 413,
       420, 436, 454, 465, 463, 446, 415, 375, 335, 301, 278, 266, 267, 277, 291, 303,
       308, 301, 282, 254, 222, 192, 169, 155, 150, 154, 163, 174, 182, 182, 173, 154,
       131, 108, 89, 75, 69, 68, 73, 80, 87, 90, 87, 78, 64, 49, 35, 25,
       20, 17, 18, 22, 26, 29, 30, 26, 20, 12, 6, 2, 0, 0, 0, 0,
       0, 1, 2, 1, 0, 0, 0, 3, 8, 12, 14, 13 >>

\* Math.ceil(currentRadius) for y = 8..99
canopyCeil ==
    <<
       29, 28, 28, 28, 28, 29, 29, 29, 29, 28, 27, 26, 25, 24, 24, 24,
       24, 24, 25, 25, 25, 25, 24, 23, 22, 21, 20, 20, 20, 20, 21, 21,
       21, 21, 20, 19, 18, 17, 17, 16, 16, 16, 16, 17, 17, 17, 17, 16,
       15, 14, 13, 12, 12, 12, 12, 12, 13, 13, 13, 12, 12, 11, 9, 9,
       8, 8, 8, 8, 9, 9, 9, 9, 8, 7, 6, 5, 4, 4, 4, 4,
       4, 5, 5, 5, 4, 4, 3, 2, 1, 0, 0, 0 >>

\* the surface cells (x, y, z) of the columns of Window the light strings
\* cross: Math.abs(spiral1) < 0.3 || Math.abs(spiral2) < 0.3
stringLights ==
    {<<1,8,28>>, <<26,15,-2>>, <<24,27,-2>>, <<10,48,10>>, <<3,73,3>>, <<0,82,-4>>, <<1,88,0>>, <<2,88,0>>, <<3,88,0>>, <<-4,89,0>>, <<2,89,0>>, <<3,89,0>>}

\* what the canopy loop emits for the cell (x, z) of layer y
canopyCell(w, x, y, z) ==
    LET distSq == x * x + z * z
        d == w.draw
        isSurface == distSq > canopyInnerSq[y - canopyFrom + 1]
        leaf == IF y % 15 > 12 THEN PALETTE.LEAF_SNOWY
                ELSE IF chance(d, x + y + z + 1) THEN PALETTE.LEAF_LIGHT
                ELSE PALETTE.LEAF_DARK
        rand == random(d, x + y + z)
        decor == CASE rand < 2 -> PALETTE.DECOR_RED
                   [] rand = 2 -> PALETTE.DECOR_ROYAL_BLUE
                   [] OTHER -> PALETTE.DECOR_PINK
    IN  IF distSq <= canopyRadiusSq[y - canopyFrom + 1]
             /\ (isSurface \/ chance(d, x + y + z))
        THEN IF isSurface /\ <<x, y, z>> \in stringLights
             THEN <<emission(x * Sub, y * Sub, z * Sub, PALETTE.LIGHT_STRING, TRUE)>>
             ELSE IF isSurface /\ chance(d, x + y + z + 2)
             THEN <<emission(x * Sub, y * Sub, z * Sub, decor, TRUE)>>
             ELSE <<emission(x * Sub, y * Sub, z * Sub, leaf, FALSE)>>
        ELSE <<>>

\* layer y of the canopy, on the columns of Window the loops over x and z reach
canopyLayer(w, y) ==
    LET c == canopyCeil[y - canopyFrom + 1]
        cs == inLoopOrder({p \in Window :
                              /\ Abs(p[1]) <= c /\ Abs(p[2]) <= c
                              /\ p[1] * p[1] + p[2] * p[2] <= canopyRadiusSq[y - canopyFrom + 1]})
    IN  addAll(w, concat([k \in DOMAIN cs |-> canopyCell(w, cs[k][1], y, cs[k][2])]))

directions ==
    << <<1,0,0>>, <<-1,0,0>>, <<0,1,0>>, <<0,-1,0>>, <<0,0,1>>, <<0,0,-1>>,
       <<1,1,0>>, <<-1,1,0>>, <<0,1,1>>, <<0,1,-1>> >>

\* the star: the core, then the rays
buildStar(w) ==
    LET starY == treeHeight + 1
        core == concat([i \in 1..5 |-> concat([j \in 1..5 |-> concat([k \in 1..5 |->
                    LET x == i - 3
                        y == j - 3
                        z == k - 3
                    IN  IF Abs(x) + Abs(y) + Abs(z) <= 3
                        THEN <<emission(x * Sub, (starY + y) * Sub, z * Sub,
                                        PALETTE.STAR_CORE, TRUE)>>
                        ELSE <<>>])])])
        ray(dir) ==
            LET len == IF Abs(dir[1]) + Abs(dir[2]) + Abs(dir[3]) > 1 THEN 5 ELSE 9
            IN  [i \in 1..(len - 2) |->
                    emission(dir[1] * (i + 1) * Sub, (starY + dir[2] * (i + 1)) * Sub,
                             dir[3] * (i + 1) * Sub, PALETTE.STAR_GLOW, TRUE)]
    IN  putAll(w, core \o concat([n \in DOMAIN directions |-> ray(directions[n])]))

(***************************************************************************)
(* The run of generateWorld: world.pc is the statement the run has reached.*)
(***************************************************************************)
WorldDraws == {[seed |-> s] : s \in 0..MaxWorldSeed}

at(stage, i, y) == [stage |-> stage, i |-> i, y |-> y]

InitWorld ==
    /\ gameState = initialState
    /\ mounted = FALSE
    /\ pending = <<>>
    /\ place = noCall
    /\ world \in {emptyWorld(d) : d \in WorldDraws}
    /\ pond = noPond

createPathStep ==
    /\ world.pc.stage = "createPath"
    /\ LET k == world.pc.i
       IN  world' = [createPath(world, k) EXCEPT
                        !.pc = IF k < Len(pathCalls) THEN at("createPath", k + 1, 0)
                               ELSE at("buildHouse", 1, 0)]
    /\ UNCHANGED <<gameState, mounted, pending, place, pond>>

buildHouseStep ==
    /\ world.pc.stage = "buildHouse"
    /\ LET b == buildings[world.pc.i]
           y == world.pc.y
       IN  world' = [houseLayer(world, b, y) EXCEPT
                        !.pc = IF y + 1 < b.h + 8 THEN at("buildHouse", world.pc.i, y + 1)
                               ELSE at("chimney", world.pc.i, 0)]
    /\ UNCHANGED <<gameState, mounted, pending, place, pond>>

chimneyStep ==
    /\ world.pc.stage = "chimney"
    /\ LET b == buildings[world.pc.i]
           j == world.pc.y
       IN  world' = [chimneyLayer(world, b, j) EXCEPT
                        !.pc = IF j + 1 \in chimneyLayers(b) THEN at("chimney", world.pc.i, j + 1)
                               ELSE IF world.pc.i < Len(buildings)
                               THEN at("buildHouse", world.pc.i + 1, 0)
                               ELSE at("terrain", 1, 0)]
    /\ UNCHANGED <<gameState, mounted, pending, place, pond>>

terrainStep ==
    /\ world.pc.stage = "terrain"
    /\ LET c == terrainColumns[world.pc.i]
       IN  world' = [terrainColumn(world, c[1], c[2]) EXCEPT
                        !.pc = IF world.pc.i < Len(terrainColumns)
                               THEN at("terrain", world.pc.i + 1, 0)
                               ELSE at("trunk", 0, 0)]
    /\ UNCHANGED <<gameState, mounted, pending, place, pond>>

trunkStep ==
    /\ world.pc.stage = "trunk"
    /\ LET y == world.pc.y
       IN  world' = [trunkLayer(world, y) EXCEPT
                        !.pc = IF y + 1 < trunkLayers THEN at("trunk", 0, y + 1)
                               ELSE at("canopy", 0, canopyFrom)]
    /\ UNCHANGED <<gameState, mounted, pending, place, pond>>

canopyStep ==
    /\ world.pc.stage = "canopy"
    /\ LET y == world.pc.y
       IN  world' = [canopyLayer(world, y) EXCEPT
                        !.pc = IF y + 1 < treeHeight THEN at("canopy", 0, y + 1)
                               ELSE at("star", 0, 0)]
    /\ UNCHANGED <<gameState, mounted, pending, place, pond>>

starStep ==
    /\ world.pc.stage = "star"
    /\ world' = [buildStar(world) EXCEPT !.pc = at("done", 0, 0)]
    /\ UNCHANGED <<gameState, mounted, pending, place, pond>>

NextWorld ==
    \/ createPathStep
    \/ buildHouseStep
    \/ chimneyStep
    \/ terrainStep
    \/ trunkStep
    \/ canopyStep
    \/ starStep

SpecWorld == InitWorld /\ [][NextWorld]_vars

\* the four output arrays of voxels, one after the other
allVoxels(w) == w.regularVoxels \o w.glowingVoxels \o w.interactiveIce \o w.waterVoxels

coordinate(v) == <<v.x, v.y, v.z>>

\* C11: no two voxels of the regular, glowing, interactive-ice and water
\* arrays together share a lattice coordinate (x, y, z).
C11_VoxelsUnique ==
    world.pc.stage # "none" =>
        LET all == allVoxels(world)
        IN  Cardinality({coordinate(all[i]) : i \in DOMAIN all}) = Len(all)

C11_Witness ==
    /\ world.pc.stage = "done"
    /\ world.interactiveIce # <<>> /\ world.waterVoxels # <<>>
    /\ world.glowingVoxels # <<>> /\ world.regularVoxels # <<>>
    /\ Len(world.lampCoords) > 0

\* the buildings whose shell loop has run its layer 0
housesEntered(w) ==
    CASE w.pc.stage = "none" -> 0
      [] w.pc.stage = "createPath" -> 0
      [] w.pc.stage = "buildHouse" -> IF w.pc.y = 0 THEN w.pc.i - 1 ELSE w.pc.i
      [] w.pc.stage = "chimney" -> w.pc.i
      [] OTHER -> Len(buildings)

\* C12: one door per building (4 buildings, 4 doors); the hinge of a door
\* lies on the front edge of its building, local z = depth/2 taken through
\* the rotation flag, and the door is turned by 0 for flag 0 and by -PI/2
\* for flag 1.
C12_OneDoorPerBuilding ==
    world.pc.stage # "none" =>
        /\ Len(world.doors) = housesEntered(world)
        /\ world.pc.stage = "done" => Len(world.doors) = 4
        /\ \A k \in DOMAIN world.doors :
              LET b == buildings[k]
                  door == world.doors[k]
              IN  IF b.r = 0
                  THEN /\ 2 * door.position[3] = (2 * b.z + b.d) * VOXEL_SIZE
                       /\ 2 * door.position[1] = (2 * b.x - 5) * VOXEL_SIZE
                       /\ door.rotation = 0
                  ELSE /\ 2 * door.position[1] = (2 * b.x - b.d) * VOXEL_SIZE
                       /\ 2 * door.position[3] = (2 * b.z - 5) * VOXEL_SIZE
                       /\ door.rotation = -1

C12_Witness ==
    /\ world.pc.stage = "done"
    /\ Len(world.doors) = 4
    /\ world.doors[2].rotation = 0 /\ world.doors[1].rotation = -1

\* column (x, z) lies in the footprint of a building
underBuilding(x, z) ==
    \E k \in DOMAIN buildings :
        LET b == buildings[k]
        IN  \E lx \in (-(b.w \div 2))..(b.w \div 2) : \E lz \in (-(b.d \div 2))..(b.d \div 2) :
                LET pos == rotate(b, lx * Sub, lz * Sub)
                IN  round(pos.x) = x /\ round(pos.z) = z

\* the columns within the world radius that are on no path and under no building
openColumns(w) ==
    {c \in Window : /\ c[1] * c[1] + c[2] * c[2] <= WORLD_RADIUS * WORLD_RADIUS
                     /\ c \notin w.pathHeightMap
                     /\ ~underBuilding(c[1], c[2])}

\* the path network is complete
pathsDrawn(w) == w.pc.stage \notin {"none", "createPath"}

\* C17: on every column within the world radius that is on no path and
\* under no building, getTerrainVoxelY(x, z) is the surface elevation the
\* generator gives the column, the pond rim band and the centre hub included.
C17_PlacementHeightIsSurface ==
    pathsDrawn(world) =>
        \A c \in openColumns(world) :
            getTerrainVoxelY(c[1], c[2]) = surfaceOf(world, c[1], c[2]).surfaceY

\* C19 as claimed: every voxel of the four output arrays has its coordinate
\* in the occupancy set.
C19_EveryVoxelOccupies ==
    world.pc.stage # "none" =>
        \A i \in DOMAIN allVoxels(world) :
            coordinate(allVoxels(world)[i]) \in world.occupied

\* C19 amended: every regular and every glowing voxel went through add, one
\* voxel per recorded coordinate (the first writer); the ice voxels (y = -2)
\* and the water voxels (y = -6) are pushed directly and their coordinates
\* are not recorded, and no voxel of another array has them.
C19_AddedVoxelsOccupy ==
    world.pc.stage # "none" =>
        LET added == world.regularVoxels \o world.glowingVoxels
            direct == world.interactiveIce \o world.waterVoxels
        IN  /\ \A i \in DOMAIN added : coordinate(added[i]) \in world.occupied
            /\ Cardinality(world.occupied) = Len(added)
            /\ \A i \in DOMAIN direct : coordinate(direct[i]) \notin world.occupied
            /\ \A i \in DOMAIN world.interactiveIce : world.interactiveIce[i].y = pondIceY
            /\ \A i \in DOMAIN world.waterVoxels : world.waterVoxels[i].y = pondWaterY

\* an emission was dropped (the bulb of the lamp at (25,-2), on the top of
\* its pole) and ice and water were pushed
C19_Witness ==
    /\ world.pc.stage = "done"
    /\ world.interactiveIce # <<>> /\ world.waterVoxels # <<>>
    /\ <<25, 8, -2>> \in world.occupied
    /\ \E i \in DOMAIN world.regularVoxels :
          coordinate(world.regularVoxels[i]) = <<25, 8, -2>>
    /\ \A i \in DOMAIN world.glowingVoxels :
          coordinate(world.glowingVoxels[i]) # <<25, 8, -2>>

\* the voxels of an array in the column of the lamp registered as l
inLampColumn(voxels, l, dx, dz) ==
    {i \in DOMAIN voxels : /\ voxels[i].x * VOXEL_SIZE = l.x + dx * VOXEL_SIZE
                            /\ voxels[i].z * VOXEL_SIZE = l.z + dz * VOXEL_SIZE}

\* C20: every lamp post has exactly one emissive bulb voxel of lamp-warm
\* colour in the glowing array, beside its pole, arm and four fixture voxels
\* in the regular array, and registers one light position.
C20_LampHasOneBulb ==
    world.pc.stage # "none" =>
        \A n \in DOMAIN world.lampCoords :
            LET l == world.lampCoords[n]
                bulbs == {i \in inLampColumn(world.glowingVoxels, l, 0, 0) :
                             world.glowingVoxels[i].color = PALETTE.LAMP_WARM}
            IN  /\ Cardinality(bulbs) = 1
                /\ Cardinality(inLampColumn(world.regularVoxels, l, 0, 0)) >= poleHeight
                /\ \A o \in {<<0, 1>>, <<0, -1>>, <<1, 0>>, <<-1, 0>>} :
                      inLampColumn(world.regularVoxels, l, o[1], o[2]) # {}
                /\ Cardinality({m \in DOMAIN world.lampCoords : world.lampCoords[m] = l}) = 1

\* C21: a createPath call whose segment is longer than 10 builds at least
\* one lamp post, a call whose segment is 10 or shorter builds none.
C21_LongPathsHaveLamps ==
    [][world.pc.stage = "createPath" =>
          LET p == pathCalls[world.pc.i]
          IN  IF pathDistSq(p) > 10 * 10
              THEN Len(world'.lampCoords) > Len(world.lampCoords)
              ELSE Len(world'.lampCoords) = Len(world.lampCoords)]_vars

\* the colours the terrain loop gives to regular voxels
terrainColours ==
    {PALETTE.SNOW, PALETTE.SNOW_SHADOW, PALETTE.DIRT, PALETTE.STONE, PALETTE.PATH}

\* the terrain loop has finished the iteration of column c
terrainDone(w, c) ==
    \/ w.pc.stage \in {"trunk", "canopy", "star", "done"}
    \/ /\ w.pc.stage = "terrain"
       /\ \E k \in 1..(w.pc.i - 1) : terrainColumns[k] = c

\* the voxels of an array in column c
inColumn(voxels, c) == {i \in DOMAIN voxels : voxels[i].x = c[1] /\ voxels[i].z = c[2]}

\* the lowest roof layer of a building: y = height
lowestRoof == CHOOSE h \in {buildings[k].h : k \in DOMAIN buildings} :
                  \A k \in DOMAIN buildings : h <= buildings[k].h

\* the regular voxels of column c that have a terrain colour and lie below
\* the roofs (a roof voxel may have the colour of snow)
ground(w, c) ==
    {i \in inColumn(w.regularVoxels, c) :
        w.regularVoxels[i].color \in terrainColours /\ w.regularVoxels[i].y < lowestRoof}

pondDistSq(c) == (c[1] + 35) * (c[1] + 35) + (c[2] - 35) * (c[2] - 35)

\* C22: the surface of a column within the world radius is chosen by
\* priority.  Within the pond radius 18 it is pond, path or not: ice at -2
\* in the interior (distance < 16), dirt at -1 on the rim.  Otherwise a
\* column of the path map is flat at 0 with path colour.  Otherwise the
\* surface is at the noise elevation with a snow colour.  A column farther
\* than the world radius from the origin has no terrain voxel.
C22_SurfacePriority ==
    world.pc.stage # "none" =>
        \A c \in Window :
            terrainDone(world, c) =>
                LET g == ground(world, c)
                    reg == world.regularVoxels
                    topIs(y, colours) ==
                        /\ \A i \in g : reg[i].y <= y
                        /\ <<c[1], y, c[2]>> \in world.occupied
                        /\ \A i \in g : reg[i].y = y => reg[i].color \in colours
                IN  IF c[1] * c[1] + c[2] * c[2] > WORLD_RADIUS * WORLD_RADIUS
                    THEN /\ g = {}
                         /\ inColumn(world.interactiveIce, c) = {}
                         /\ inColumn(world.waterVoxels, c) = {}
                    ELSE IF pondDistSq(c) < 16 * 16
                    THEN /\ \E i \in inColumn(world.interactiveIce, c) :
                              world.interactiveIce[i].y = -2
                         /\ \A i \in g : reg[i].y < -2
                    ELSE IF pondDistSq(c) < 18 * 18
                    THEN /\ topIs(-1, {PALETTE.DIRT})
                         /\ \E i \in g : reg[i].y = -1
                         /\ inColumn(world.interactiveIce, c) = {}
                    ELSE IF c \in world.pathHeightMap
                    THEN /\ topIs(0, {PALETTE.PATH})
                         /\ inColumn(world.interactiveIce, c) = {}
                    ELSE /\ topIs(noiseFloor[c], {PALETTE.SNOW, PALETTE.SNOW_SHADOW})
                         /\ inColumn(world.interactiveIce, c) = {}

\* the terrain is finished; the pond centre, which the paths reach, has ice;
\* the rim column (-23,23) on the path to the pond has dirt at -1; the path
\* column (42,-2) has path colour at 0; (64,64) lies outside the radius
C22_Witness ==
    /\ world.pc.stage = "done"
    /\ <<-35, 35>> \in world.pathHeightMap
    /\ inColumn(world.interactiveIce, <<-35, 35>>) # {}
    /\ <<-23, 23>> \in world.pathHeightMap
    /\ \E i \in ground(world, <<-23, 23>>) :
          world.regularVoxels[i].y = -1 /\ world.regularVoxels[i].color = PALETTE.DIRT
    /\ \E i \in ground(world, <<42, -2>>) :
          world.regularVoxels[i].y = 0 /\ world.regularVoxels[i].color = PALETTE.PATH
    /\ \E i \in ground(world, <<10, 10>>) :
          world.regularVoxels[i].y = noiseFloor[<<10, 10>>]
    /\ inColumn(world.regularVoxels, <<64, 64>>) = {}

\* the pond-interior columns the run follows
pondInterior == {c \in Window : pondDistSq(c) < 16 * 16}

\* C23: a pond-interior column (distance to the pond centre < 16) has
\* exactly one ice voxel, at y = -2, no voxel of any array at y = -3, -4,
\* -5, exactly one water voxel, at y = -6, and at least one lakebed voxel
\* below y = -6; there are as many ice voxels as water voxels.
C23_PondColumn ==
    world.pc.stage # "none" =>
        /\ Len(world.interactiveIce) = Len(world.waterVoxels)
        /\ \A c \in pondInterior :
              terrainDone(world, c) =>
                  LET ice == inColumn(world.interactiveIce, c)
                      water == inColumn(world.waterVoxels, c)
                      all == allVoxels(world)
                  IN  /\ Cardinality(ice) = 1
                      /\ \A i \in ice : world.interactiveIce[i].y = -2
                      /\ Cardinality(water) = 1
                      /\ \A i \in water : world.waterVoxels[i].y = -6
                      /\ \A i \in inColumn(all, c) : all[i].y \notin {-3, -4, -5}
                      /\ \E i \in inColumn(world.regularVoxels, c) :
                            world.regularVoxels[i].y < -6

\* the terrain is finished and the shallowest interior column, (-50,40),
\* has its ice, its water and its lakebed
C23_Witness ==
    /\ world.pc.stage = "done"
    /\ Cardinality(pondInterior) = 4
    /\ Len(world.interactiveIce) = 4
    /\ \E i \in inColumn(world.regularVoxels, <<-50, 40>>) : world.regularVoxels[i].y = -7
    /\ \E i \in inColumn(world.waterVoxels, <<-50, 40>>) : world.waterVoxels[i].y = -6

\* the gifts and the id counter before the scatter of generateGifts
beforeScatter(d) ==
    placeOnPond(placeInHouses(placeOnTree([gifts |-> <<>>, idCounter |-> 0], 0, d), 1, d),
                0, d)

\* sample number a of scatter slot i lies within 6 units of the origin
scatterRejected(d, i, a) ==
    LET p == scatterSample(d, i, a)
    IN  p[1] * p[1] + p[2] * p[2] < scatterExclusion * scatterExclusion

\* the samples scatter slot i has drawn when its while loop ends
samplesDrawn(d, i) ==
    IF scatterExhausted(d, i) THEN scatterAttempts
    ELSE CHOOSE a \in 1..scatterAttempts :
             ~scatterRejected(d, i, a) /\ \A b \in 1..(a - 1) : scatterRejected(d, i, b)

\* C24: a scatter slot draws at most 50 samples and adds at most one gift:
\* a sample within 6 units of the origin is rejected, the first sample
\* outside that radius is the position of the gift the slot adds, every
\* scattered gift lies at distance >= 6 voxels from the origin, and a slot
\* adds no gift only when its 50 samples were all rejected.
C24_ScatterSlotBounded ==
    place.op = "generateGifts" =>
        LET d == place.draw
            g3 == beforeScatter(d)
            c == Len(g3.gifts)
            scattered == SubSeq(place.gifts, c + 1, Len(place.gifts))
        IN  /\ \A j \in DOMAIN scattered :
                  scattered[j].position[1] * scattered[j].position[1]
                    + scattered[j].position[3] * scattered[j].position[3]
                  >= (scatterExclusion * VOXEL_SIZE) * (scatterExclusion * VOXEL_SIZE)
            /\ \A i \in 0..(targetInitial - c - 1) :
                  LET before == scatter(g3, 0, i, d)
                      after == scatterSlot(before, i, 0, d)
                      n == samplesDrawn(d, i)
                      p == scatterSample(d, i, n)
                  IN  /\ n <= 50
                      /\ IF scatterExhausted(d, i)
                         THEN after.gifts = before.gifts
                         ELSE /\ Len(after.gifts) = Len(before.gifts) + 1
                              /\ SubSeq(after.gifts, 1, Len(before.gifts)) = before.gifts
                              /\ after.gifts[Len(after.gifts)].position[1] = p[1] * VOXEL_SIZE
                              /\ after.gifts[Len(after.gifts)].position[3] = p[2] * VOXEL_SIZE
                              /\ \E j \in DOMAIN scattered :
                                    scattered[j] = after.gifts[Len(after.gifts)]

\* one slot was exhausted, another rejected its first sample and took its
\* second, and a gift lies at distance exactly 6
C24_Witness ==
    /\ place.op = "generateGifts"
    /\ \E i \in 0..4 : scatterExhausted(place.draw, i)
    /\ \E i \in 0..3 : samplesDrawn(place.draw, i) = 2
    /\ \E j \in DOMAIN place.gifts :
          place.gifts[j].position[1] = 6 * VOXEL_SIZE /\ place.gifts[j].position[3] = 0
    /\ Len(place.gifts) < targetInitial

\* the house the j-th gift after the tree gifts belongs to, under draw d
RECURSIVE houseOfGift(_, _, _)
houseOfGift(d, j, hi) ==
    IF j <= numInside(d, hi) THEN hi ELSE houseOfGift(d, j - numInside(d, hi), hi + 1)

\* the gifts placed in houses under draw d
houseGiftCount(d) == numInside(d, 1) + numInside(d, 2) + numInside(d, 3) + numInside(d, 4)

\* the local cell of building b that holds the world position (X, Z), given
\* in hundredths of a voxel: the inverse of rotate on the lattice cell
localCell(b, X, Z) ==
    LET vx == (2 * X + VOXEL_SIZE) \div (2 * VOXEL_SIZE)
        vz == (2 * Z + VOXEL_SIZE) \div (2 * VOXEL_SIZE)
    IN  IF b.r = 0 THEN [x |-> vx - b.x, z |-> vz - b.z]
        ELSE [x |-> vz - b.z, z |-> b.x - vx]

\* C25: every gift placed in a house is a stocking and lies inside the
\* footprint of its building as generateWorld builds it (rotation flag
\* applied), in a cell inside the wall shell, never in a cell of the walls.
C25_HouseGiftsInsideWalls ==
    place.op = "generateGifts" =>
        \A j \in 1..houseGiftCount(place.draw) :
            LET gift == place.gifts[treeCount + j]
                b == buildings[houseOfGift(place.draw, j, 1)]
                cell == localCell(b, gift.position[1], gift.position[3])
            IN  /\ gift.type = "stocking"
                /\ Abs(cell.x) <= b.w \div 2
                /\ Abs(cell.z) <= b.d \div 2
                /\ ~isShell(b, cell.x, cell.z)

(***************************************************************************)
(* IcePond.  crackStage and hovered are React state: a handler queues an   *)
(* update, the next render applies the queued updates in order and returns *)
(* the group with its handlers, or null.  The cursor style is written by   *)
(* the handler itself.                                                     *)
(***************************************************************************)
\* setCrackStage(prev => prev + 1) stopping at 3
pondUpdaterCapped(p, e) ==
    CASE e = "click" -> [p EXCEPT !.crackStage = IF p.crackStage < 3 THEN p.crackStage + 1
                                                 ELSE p.crackStage]
      [] e = "over" -> [p EXCEPT !.hovered = TRUE]
      [] e = "out" -> [p EXCEPT !.hovered = FALSE]

\* the update an event queued: setCrackStage(prev => prev + 1),
\* setHovered(true), setHovered(false)
pondUpdater(p, e) ==
    CASE e = "click" -> [p EXCEPT !.crackStage = p.crackStage + 1]
      [] e = "over" -> [p EXCEPT !.hovered = TRUE]
      [] e = "out" -> [p EXCEPT !.hovered = FALSE]

RECURSIVE pondApplyAll(_, _)
pondApplyAll(p, events) ==
    IF events = <<>> THEN p
    ELSE pondApplyAll(pondUpdater(p, Head(events)), Tail(events))

\* the clicks among queued events
clicksIn(events) == Len(SelectSeq(events, LAMBDA e : e = "click"))

\* IcePond as mounted: useState(0), useState(false), the group rendered
mountedPond ==
    [crackStage |-> 0, hovered |-> FALSE, cursor |-> "auto", pane |-> TRUE,
     queue |-> <<>>]

InitPond ==
    /\ gameState = initialState
    /\ mounted = FALSE
    /\ pending = <<>>
    /\ place = noCall
    /\ world = noWorld
    /\ pond = mountedPond

\* onClick of the group
pondHandleClick ==
    /\ pond.pane
    /\ Len(pond.queue) < MaxPondPending
    /\ pond' = [pond EXCEPT !.queue = Append(pond.queue, "click")]
    /\ UNCHANGED <<gameState, mounted, pending, place, world>>

\* onPointerOver of the group
pondPointerOver ==
    /\ pond.pane
    /\ Len(pond.queue) < MaxPondPending
    /\ pond' = [pond EXCEPT !.queue = Append(pond.queue, "over"), !.cursor = "pointer"]
    /\ UNCHANGED <<gameState, mounted, pending, place, world>>

\* onPointerOut of the group
pondPointerOut ==
    /\ pond.pane
    /\ Len(pond.queue) < MaxPondPending
    /\ pond' = [pond EXCEPT !.queue = Append(pond.queue, "out"), !.cursor = "auto"]
    /\ UNCHANGED <<gameState, mounted, pending, place, world>>

\* a render of IcePond: the queued updates, then if (crackStage >= 3) return null
renderIcePond ==
    /\ pond.pane
    /\ pond.queue # <<>>
    /\ LET next == pondApplyAll(pond, pond.queue)
       IN  pond' = [next EXCEPT !.queue = <<>>, !.pane = ~(next.crackStage >= 3)]
    /\ UNCHANGED <<gameState, mounted, pending, place, world>>

NextPond ==
    \/ pondHandleClick
    \/ pondPointerOver
    \/ pondPointerOut
    \/ renderIcePond

SpecPond == InitPond /\ [][NextPond]_vars

giftIdentity(g) ==
    [id |-> g.id, position |-> g.position, type |-> g.type, color |-> g.color,
     rotation |-> g.rotation]

\* a snowman without hp and isDead
snowmanIdentity(sm) == [f \in (DOMAIN sm) \ {"hp", "isDead"} |-> sm[f]]

\* C27: gifts are never removed and the id, position, type and colour of a
\* gift never change.  collect changes only the collected flag of the gift
\* with the id (never back to false), foundCount and gameOver, and leaves
\* the snowmen and started alone.  hit changes only hp and isDead of the
\* snowman with the id, appends at most one gift, and leaves the gifts there
\* are, foundCount, gameOver and started alone.
C27_FrameOfCollectAndHit ==
    LET s == gameState
    IN  /\ \A id \in CollectArgs(s) :
              LET n == collectUpdater(s, id)
              IN  /\ n.snowmen = s.snowmen
                  /\ n.started = s.started
                  /\ Len(n.gifts) = Len(s.gifts)
                  /\ \A i \in DOMAIN s.gifts :
                        /\ giftIdentity(n.gifts[i]) = giftIdentity(s.gifts[i])
                        /\ s.gifts[i].collected => n.gifts[i].collected
                        /\ s.gifts[i].id # id => n.gifts[i] = s.gifts[i]
        /\ \A id \in 0..snowmanCount :
              LET n == snowmanHitUpdater(s, id)
              IN  /\ n.foundCount = s.foundCount
                  /\ n.gameOver = s.gameOver
                  /\ n.started = s.started
                  /\ Len(n.gifts) \in {Len(s.gifts), Len(s.gifts) + 1}
                  /\ SubSeq(n.gifts, 1, Len(s.gifts)) = s.gifts
                  /\ Len(n.snowmen) = Len(s.snowmen)
                  /\ \A i \in DOMAIN s.snowmen :
                        /\ snowmanIdentity(n.snowmen[i]) = snowmanIdentity(s.snowmen[i])
                        /\ s.snowmen[i].id # id => n.snowmen[i] = s.snowmen[i]

\* a gift has been collected, a snowman has died and left its reward, and
\* another snowman has lost hit points
C27_Witness ==
    /\ \E i \in DOMAIN gameState.gifts :
          gameState.gifts[i].collected /\ gameState.gifts[i].id < rewardIdOffset
    /\ \E i \in DOMAIN gameState.gifts : gameState.gifts[i].id = rewardIdOffset
    /\ \E i \in DOMAIN gameState.snowmen : gameState.snowmen[i].isDead
    /\ \E i \in DOMAIN gameState.snowmen :
          ~gameState.snowmen[i].isDead /\ gameState.snowmen[i].hp < snowmanHp
    /\ gameState.foundCount > 0

(***************************************************************************)
(* The session of a player: every event comes from an entity the scene     *)
(* renders and is rendered before the next one.  Placed gifts are          *)
(* collected in the order of their ids (the handlers treat every id        *)
(* alike), reward gifts in any order, and the hits go to one of the first   *)
(* MaxChoice living snowmen.                                               *)
(***************************************************************************)
\* the living snowmen the player chooses among
PlayerHitArgs(s) ==
    {id \in renderedSnowmen(s) :
        Cardinality({other \in renderedSnowmen(s) : other < id}) < MaxChoice}

PlayerCollectArgs(s) ==
    renderedGifts(s) \cap
       ((IF uncollectedPlaced(s) = {} THEN {} ELSE {Min(uncollectedPlaced(s))})
          \cup {rewardIdOffset + i : i \in 0..(snowmanCount - 1)})

\* onClick of a rendered GiftItem
playerCollect(id) ==
    /\ mounted /\ gameState.started /\ ~gameState.gameOver
    /\ gameState' = applyAll(gameState, <<[op |-> "collect", id |-> id]>>)
    /\ UNCHANGED <<mounted, pending, place, world, pond>>

\* onHit of a rendered SnowmanItem
playerHit(id) ==
    /\ mounted /\ gameState.started /\ ~gameState.gameOver
    /\ gameState' = applyAll(gameState, <<[op |-> "hit", id |-> id]>>)
    /\ UNCHANGED <<mounted, pending, place, world, pond>>

\* the Start Hunting button of the start screen
playerStart ==
    /\ mounted /\ ~gameState.started
    /\ gameState' = applyAll(gameState, <<[op |-> "start", id |-> 0]>>)
    /\ UNCHANGED <<mounted, pending, place, world, pond>>

NextPlayer ==
    \/ InitEffect
    \/ playerStart
    \/ \E id \in PlayerCollectArgs(gameState) : playerCollect(id)
    \/ \E id \in PlayerHitArgs(gameState) : playerHit(id)

SpecPlayer == Init /\ [][NextPlayer]_vars

\* C28: when collect and hit events come only from rendered entities, a
\* state with gameOver = true has all 5 snowmen dead and every gift of the
\* collection collected, 25 placed gifts and the 5 rewards, and foundCount
\* never exceeds 30.
C28_WinNeedsEverything ==
    /\ gameState.foundCount <= totalGoals
    /\ gameState.foundCount = collectedCount(gameState)
    /\ gameState.gameOver =>
          /\ Len(gameState.snowmen) = snowmanCount
          /\ \A i \in DOMAIN gameState.snowmen : gameState.snowmen[i].isDead
          /\ \A i \in DOMAIN gameState.gifts : gameState.gifts[i].collected
          /\ Cardinality({i \in DOMAIN gameState.gifts :
                             gameState.gifts[i].id < rewardIdOffset}) = targetInitial
          /\ Cardinality({i \in DOMAIN gameState.gifts :
                             gameState.gifts[i].id >= rewardIdOffset}) = snowmanCount

C28_Witness ==
    /\ gameState.gameOver
    /\ gameState.foundCount = totalGoals
    /\ Len(gameState.gifts) = totalGoals

\* the session from the state the mount effect produced
InitPlaying ==
    /\ gameState \in {initUpdater(initialState, d) : d \in Draws}
    /\ mounted = TRUE
    /\ pending = <<>>
    /\ place = noCall
    /\ world = noWorld
    /\ pond = noPond

NextPlaying ==
    \/ playerStart
    \/ \E id \in PlayerCollectArgs(gameState) : playerCollect(id)
    \/ \E id \in PlayerHitArgs(gameState) : playerHit(id)

\* the player goes on: while an event is possible, one is eventually issued
SpecPlayerFair == InitPlaying /\ [][NextPlaying]_vars /\ WF_vars(NextPlaying)

\* C29: the session is winnable: when every rendered gift is eventually
\* collected and every living snowman eventually hit, gameOver eventually
\* becomes true, whatever the placement draws.
C29_EventuallyGameOver == <>(gameState.gameOver)

\* what the claim compares of two states: foundCount, gameOver, the snowmen
\* and the set of gifts
sameOutcome(a, b) ==
    /\ a.foundCount = b.foundCount
    /\ a.gameOver = b.gameOver
    /\ a.snowmen = b.snowmen
    /\ \/ a.gifts = b.gifts
       \/ /\ Len(a.gifts) = Len(b.gifts)
          /\ {a.gifts[i] : i \in DOMAIN a.gifts} = {b.gifts[i] : i \in DOMAIN b.gifts}

\* the gift ids of a state among those the session issues
existingGiftArgs(s) == {id \in CollectArgs(s) : known(s, id)}

\* the snowmen the session hits and one it never hits (the snowmen it never
\* hits are all at their initial hit points)
hitSnowmen == {i \in 0..(MaxHitArg + 1) : i < snowmanCount}

\* C30: events on distinct entities commute.  In every reachable state, for
\* a gift id g there is and a snowman id s whose reward gift is not g,
\* collect(g) then hit(s) and hit(s) then collect(g) give the same
\* foundCount, gameOver, snowmen and set of gifts; so do hit(s1), hit(s2)
\* for distinct snowmen and collect(g1), collect(g2) for distinct gifts.
C30_DistinctEventsCommute ==
    LET st == gameState
        gs == existingGiftArgs(st)
        ss == hitSnowmen
        afterHit == [s \in ss |-> snowmanHitUpdater(st, s)]
        afterCollect == [g \in gs |-> collectUpdater(st, g)]
    IN  /\ \A g \in gs : \A s \in ss :
              g # rewardIdOffset + s =>
                  sameOutcome(snowmanHitUpdater(afterCollect[g], s),
                              collectUpdater(afterHit[s], g))
        /\ \A s1 \in ss : \A s2 \in ss :
              s1 < s2 =>
                  sameOutcome(snowmanHitUpdater(afterHit[s1], s2),
                              snowmanHitUpdater(afterHit[s2], s1))
        /\ \A g1 \in gs : \A g2 \in gs :
              g1 < g2 =>
                  sameOutcome(collectUpdater(afterCollect[g1], g2),
                              collectUpdater(afterCollect[g2], g1))

\* two snowmen have one hit point left, so that either order of their hits
\* appends two rewards; one gift waits to be collected and another is collected
C30_Witness ==
    /\ Cardinality({i \in DOMAIN gameState.snowmen :
                       gameState.snowmen[i].hp = 1 /\ ~gameState.snowmen[i].isDead}) >= 2
    /\ \E id \in existingGiftArgs(gameState) :
          ~gameState.gifts[findIndex(gameState.gifts, id)].collected
    /\ \E id \in existingGiftArgs(gameState) :
          gameState.gifts[findIndex(gameState.gifts, id)].collected
====
